----------------------------- MODULE AnswerMerge ------------------------------
(***************************************************************************)
(* One turn of SubstrateCopilotClient: the two views upstream gives of an  *)
(* answer (deltas at a cursor, snapshots that restate it), merged into one *)
(* text that cannot be taken back; the end of a turn (substrate_parse.py); *)
(* and the attempts an empty or refused turn gets.                         *)
(*                                                                         *)
(* The answer of an attempt is the pieces 1 .. Pieces, each long enough to *)
(* be recognised (_TAIL_ANCHOR_MIN) and none below a tenth of the answer   *)
(* (_RESTATEMENT_COVERAGE); beside them there are an image, a line of      *)
(* narration and the canned refusal.  Both views render a citation alike   *)
(* (CitationTracker); a delta that ends inside a marker has its last piece *)
(* held back.  Upstream's deltas never go back.  They may skip, but never  *)
(* inside or up to a marker, nor into the middle of what a snapshot has    *)
(* covered.                                                                *)
(***************************************************************************)
EXTENDS Common, Lists, Integers, Sequences, SequencesExt

CONSTANT Pieces

ASSUME PiecesAssumption == Pieces \in Nat \ {0}
ASSUME VerdictAssumption == None \notin {"ended", "closed", "error"}

VARIABLES
  attempt,   \* the attempt that is under way
  delivered, \* what the reader has: each piece with its attempt
  verdict    \* how the turn ended, or None

mergeVars == <<attempt, delivered, verdict>>
-----------------------------------------------------------------------------
\* The pieces that are none of the answer's.
Image == 0
Narration == -1
Refusal == -2

Text(first, last) == [i \in 1 .. last - first + 1 |-> first + i - 1]

\* What a signature keeps: everything but images.
Signature(text) == Selected(text, {i \in DOMAIN text : text[i] # Image})

Occurs(part, text) ==
  \E i \in 0 .. Len(text) - Len(part) : SubSeq(text, i + 1, i + Len(part)) = part

Rest(text, n) == SubSeq(text, n + 1, Len(text))

\* _cumulative_catchup
CatchUp(streamed, snapshot) ==
  IF streamed # <<>> /\ IsPrefix(streamed, snapshot) THEN Rest(snapshot, Len(streamed)) ELSE <<>>

\* _split_snapshot_lead: the lead that is left, and what of the delta is new.
SplitLead(lead, delta) ==
  IF IsPrefix(delta, lead) THEN [lead |-> Rest(lead, Len(delta)), text |-> <<>>]
  ELSE IF IsPrefix(lead, delta) THEN [lead |-> <<>>, text |-> Rest(delta, Len(lead))]
  ELSE [lead |-> <<>>, text |-> delta]

\* Mutant: a stream that showed half of the answer has reached its end.
TailAfter_Half(streamed, whole) ==
  IF 2 * Len(streamed) >= Len(whole) THEN <<>> ELSE Rest(whole, Len(streamed))

\* _fallback_tail_after_delivered, _aligned_tail, _common_prefix_len: what
\* follows the last piece both have.
TailAfter(streamed, whole) ==
  Rest(whole, Max({0} \cup {i \in DOMAIN whole : whole[i] \in ToSet(streamed)}))

\* Mutant: the tail follows the prefix both have.
Remainder_Prefix(streamed, whole) ==
  IF streamed = whole \/ Occurs(whole, streamed) THEN <<>>
  ELSE Rest(whole, CHOOSE n \in 0 .. Len(whole) :
                     /\ IsPrefix(SubSeq(whole, 1, n), streamed)
                     /\ n < Len(whole) => ~ IsPrefix(SubSeq(whole, 1, n + 1), streamed))

\* _final_fallback_remainder
Remainder(streamed, whole) ==
  LET s == Signature(streamed)
      w == Signature(whole) IN
  IF whole = <<>> \/ streamed = <<>> THEN whole
  ELSE IF IsPrefix(streamed, whole) THEN Rest(whole, Len(streamed))
  ELSE IF Occurs(whole, streamed) \/ (s # <<>> /\ w # <<>> /\ (Occurs(s, w) \/ Occurs(w, s)))
  THEN <<>>
  ELSE IF ToSet(w) \subseteq ToSet(s) THEN <<>>
  ELSE TailAfter(streamed, whole)

\* _is_answer_entry
IsAnswer(entry) == entry # <<Narration>>

\* The scan of a frame's messages, from the last one.
AnswerOf(entries, fallback) ==
  LET answers == {i \in DOMAIN entries : IsAnswer(entries[i])} IN
  IF answers = {} THEN fallback ELSE entries[Max(answers)]
-----------------------------------------------------------------------------
\* Of the session's conversation, or of the one that replaced it; spare: a
\* throwaway conversation.
Fresh(n, start, healed, spare, fate) ==
  [n |-> n, start |-> start, healed |-> healed, spare |-> spare, fate |-> fate,
   cursor |-> 0, covered |-> 0, completed |-> FALSE, failed |-> FALSE, image |-> FALSE,
   streamed |-> <<>>, fallback |-> <<>>, lead |-> <<>>, held |-> <<>>, any |-> FALSE]

Fates == {"answer", "refusal", "nothing"}

MergeInit ==
  /\ \E start \in BOOLEAN, fate \in Fates : attempt = Fresh(1, start, FALSE, FALSE, fate)
  /\ delivered = <<>>
  /\ verdict = None

WithText(a, text) == delivered \o [i \in DOMAIN text |-> <<a.n, text[i]>>]

\* The messages of a frame: the answer up to piece k, and maybe narration.
Entries(k, narrates) ==
  (IF attempt.fate = "refusal" THEN << <<Refusal>> >>
   ELSE IF k = 0 THEN <<>>
   ELSE <<IF attempt.image THEN Append(Text(1, k), Image) ELSE Text(1, k)>>)
  \o (IF narrates THEN << <<Narration>> >> ELSE <<>>)

Receives == verdict = None /\ ~ attempt.completed

\* An update frame: a delta for the pieces first .. last (none if last = 0),
\* messages up to piece k, and a first image.  What a delta leaves nothing
\* of ends the handling of its frame.
Update(first, last, holds, k, narrates, image) ==
  LET a == attempt
      delta == IF last = 0 THEN <<>> ELSE a.held \o Text(first, last)
      text == IF holds THEN Front(delta) ELSE delta
      opening == IF text # <<>> /\ ~ a.any THEN a.fallback ELSE <<>>
      split == SplitLead(IF opening # <<>> THEN opening ELSE a.lead, text)
      stops == last # 0 /\ split.text = <<>>
      entries == IF stops THEN <<>> ELSE Entries(k, narrates)
      fallback == AnswerOf(entries, a.fallback)
      streamed == a.streamed \o opening \o split.text
      caught == IF entries = <<>> THEN <<>> ELSE CatchUp(streamed, fallback)
      shown == IF image /\ ~ stops THEN <<Image>> ELSE <<>>
      said == opening \o split.text \o caught \o shown IN
  /\ Receives
  /\ last # 0 => /\ a.fate = "answer"
                 /\ \/ first = a.cursor + 1
                    \/ first > a.covered /\ a.held = <<>> /\ (holds => first < last)
  /\ holds => last # 0
  /\ k # 0 => a.fate = "answer" /\ k >= a.cursor /\ k >= last
  /\ image => a.fate = "answer" /\ ~ a.image
  /\ last # 0 \/ k # 0 \/ narrates \/ image \/ a.fate = "refusal"
  /\ attempt' = [a EXCEPT
       !.cursor = IF last = 0 THEN @ ELSE last,
       !.covered = IF k > @ THEN k ELSE @,
       !.image = @ \/ image,
       !.held = IF last = 0 THEN @ ELSE IF holds THEN <<Last(delta)>> ELSE <<>>,
       !.lead = (IF last = 0 \/ text = <<>> THEN @ ELSE split.lead) \o caught,
       !.streamed = @ \o said,
       !.fallback = fallback,
       !.any = @ \/ said # <<>>]
  /\ delivered' = WithText(a, said)
  /\ UNCHANGED verdict

\* The completion frame: the verdict and all messages of the turn.
Complete(narrates, failed) ==
  /\ Receives
  /\ attempt' = [attempt EXCEPT
       !.completed = TRUE, !.failed = failed,
       !.fallback = AnswerOf(Entries(IF attempt.fate = "answer" THEN Pieces ELSE 0, narrates), @)]
  /\ UNCHANGED <<delivered, verdict>>

\* The turn failed with an error; refused is the one that names a refusal.
\* The session's conversation is replaced if it refused to be continued and
\* nothing of the turn was shown.
Heals(refused) == refused /\ delivered = <<>> /\ ~ attempt.start /\ ~ attempt.healed

Raise(refused) ==
  /\ IF Heals(refused)
     THEN /\ \E fate \in Fates : attempt' = Fresh(attempt.n + 1, TRUE, TRUE, FALSE, fate)
          /\ UNCHANGED verdict
     ELSE verdict' = "error" /\ UNCHANGED attempt
  /\ UNCHANGED delivered

\* Nothing was shown, and upstream says it failed or says the canned line.
Refused(a, remaining) == ~ a.any /\ (a.failed \/ remaining = <<Refusal>>)

\* What was held back, but for what a snapshot has delivered.
HeldText(a) == IF a.lead = <<>> THEN a.held ELSE SplitLead(a.lead, a.held).text

\* An attempt that said nothing is repeated once, in another conversation.
Finish(a, text, how) ==
  /\ delivered' = WithText(a, text)
  /\ IF a.streamed \o text # <<>>
     THEN verdict' = how /\ UNCHANGED attempt
     ELSE IF a.spare
     THEN verdict' = "error" /\ UNCHANGED attempt
     ELSE /\ \E fate \in Fates :
               attempt' = Fresh(a.n + 1, a.start, a.healed, TRUE, fate)
          /\ UNCHANGED verdict

\* The frame of type 3: what was held back, and what only the snapshot has.
End ==
  LET held == HeldText(attempt)
      remaining == Remainder(attempt.streamed \o held, attempt.fallback) IN
  /\ verdict = None /\ attempt.completed
  /\ IF Refused(attempt, remaining) THEN Raise(TRUE)
     ELSE Finish(attempt, held \o remaining, "ended")

\* The socket is closed without that frame, or breaks.
Close == verdict = None /\ Finish(attempt, <<>>, "closed")
Break == verdict = None /\ Raise(FALSE)

MergeNext ==
  \/ \E last, k \in {0} \cup attempt.cursor .. Pieces, holds, narrates, image \in BOOLEAN :
       \E first \in IF last = 0 THEN {0} ELSE attempt.cursor + 1 .. last :
         Update(first, last, holds, k, narrates, image)
  \/ \E narrates, failed \in BOOLEAN : Complete(narrates, failed)
  \/ End \/ Close \/ Break

MergeSpec == MergeInit /\ [][MergeNext]_mergeVars
-----------------------------------------------------------------------------
(* "So neither its already-streamed head nor a run the stream skipped is   *)
(* sent twice": the reader gets one attempt's answer, its pieces in order  *)
(* and each at most once, whichever view brought them and whatever the     *)
(* stream lost; no narration and no refusal is passed off as part of it.   *)
(* An image in a snapshot can break the comparison: see TailDelivered.     *)
ReadOnce ==
  /\ \A i, j \in DOMAIN delivered :
       i < j /\ ~ attempt.image => delivered[i][2] < delivered[j][2]
  /\ \A i \in DOMAIN delivered :
       /\ delivered[i][1] = delivered[1][1]
       /\ delivered[i][2] \notin {Narration, Refusal}

(* A turn that ended with its whole answer in the completion frame has     *)
(* brought the reader to its end, where the stream showed the opening and  *)
(* no image.                                                               *)
WholeAnswer ==
  (verdict = "ended" /\ attempt.fate = "answer" /\ ~ attempt.image /\ delivered[1][2] = 1)
  => Last(delivered)[2] = Pieces

(* "Return the tail of the whole fallback answer that has not been         *)
(* streamed yet": with an image, too.                                      *)
TailDelivered ==
  (verdict = "ended" /\ attempt.fate = "answer")
  => \E i \in DOMAIN delivered : delivered[i][2] = Pieces
=============================================================================
