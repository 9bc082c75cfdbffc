----------------------------- MODULE ConsumerTurn -----------------------------
(***************************************************************************)
(* One turn of ConsumerCopilotClient.chat_stream: a conversation is made,  *)
(* the attachments are uploaded, the question is sent when the socket says *)
(* `connected`, and the frames are read until `done`, an error, or the end *)
(* of the socket.  A demand for clearance is answered once, by the gate    *)
(* that renews the account's credential, and only while nothing is shown.  *)
(*                                                                         *)
(* An attempt draws at most Pictures pictures, one after the other: of     *)
(* each come previews, and then its url, or the socket ends first.         *)
(***************************************************************************)
EXTENDS Common, Integers, Sequences, FiniteSets

CONSTANTS Pictures, MaxTexts

VARIABLES
  asked,   \* the turn: its attachments, whether it has text, whether there is a gate
  step,    \* how far it is, or how it ended
  mint,    \* 1: with the account's credential, 2: with what the gate returned
  taken,   \* attachments handled and parts upstream has accepted, this attempt
  read,    \* the variables of _read_stream
  drawing, \* upstream: the picture it is at, and whether previews of it were sent
  shown    \* what the client was given: attempt, kind and number of the picture

turnVars == <<asked, step, mint, taken, read, drawing, shown>>
-----------------------------------------------------------------------------
Unread == [opened |-> FALSE, answered |-> FALSE, sends |-> 0, partial |-> 0, delivered |-> FALSE]
NothingTaken == [handled |-> 0, parts |-> 0]
NothingDrawn == [at |-> 1, begun |-> FALSE]

ConsumerInit ==
  /\ asked \in [images : 0 .. 2, text : BOOLEAN, gate : BOOLEAN]
  /\ step = "landing" /\ mint = 1 /\ taken = NothingTaken
  /\ read = Unread /\ drawing = NothingDrawn /\ shown = <<>>

\* What ConsumerClientAdapter makes of the client's exceptions.
Failures == {"network", "throttled", "refused"}

GoesTo(next) ==
  /\ step' = next
  /\ UNCHANGED <<asked, mint, taken, read, drawing, shown>>

\* ClearanceRequired: the gate's turn, once, and never after visible output.
Challenged ==
  IF shown # <<>> \/ mint = 2 \/ ~ asked.gate THEN GoesTo("refused") ELSE GoesTo("gate")

\* The gate returned a credential, and the turn starts over with it.
GateOpens ==
  /\ step = "gate"
  /\ step' = "landing" /\ mint' = 2 /\ taken' = NothingTaken
  /\ read' = Unread /\ drawing' = NothingDrawn
  /\ UNCHANGED <<asked, shown>>

\* It raised, or returned none.
GateFails == step = "gate" /\ GoesTo("refused")
-----------------------------------------------------------------------------
\* A transport error is a network failure, or a refusal to negotiate.
Transport == {"network", "refused"}

Land == step = "landing" /\ \E to \in {"create"} \cup Transport : GoesTo(to)

CreateConversation ==
  /\ step = "create"
  /\ \/ \E to \in {"upload"} \cup Transport : GoesTo(to)
     \/ Challenged

\* image_upload_bytes, image_content_type: bytes that are no picture, and an
\* upload that failed or has no url, are left out.
UploadImage ==
  /\ step = "upload" /\ taken.handled < asked.images
  /\ \/ /\ \E accepted \in 0 .. 1 :
             taken' = [handled |-> taken.handled + 1, parts |-> taken.parts + accepted]
        /\ UNCHANGED <<asked, step, mint, read, drawing, shown>>
     \/ Challenged

\* The content of the send frame; a turn that has none left is not sent.
Compose ==
  /\ step = "upload" /\ taken.handled = asked.images
  /\ IF taken.parts = 0 /\ ~ asked.text THEN GoesTo("refused") ELSE GoesTo("connect")

Connect == step = "connect" /\ \E to \in {"reading"} \cup Transport : GoesTo(to)
-----------------------------------------------------------------------------
Reads == step = "reading"
Replies == Reads /\ read.sends > 0

\* Upstream says it twice; the question is sent with the first.
Connected ==
  /\ Reads
  /\ read' = IF read.opened THEN read ELSE [read EXCEPT !.opened = TRUE, !.sends = 1]

Opening == Connected /\ UNCHANGED <<asked, step, mint, taken, drawing, shown>>

Shows(kind, n) == Append(shown, <<mint, kind, n>>)

Said == {i \in DOMAIN shown : shown[i][2] = "text"}

\* An empty chunk is passed on, and is nothing that is shown.
AppendText(empty) ==
  /\ Replies /\ Cardinality(Said) < MaxTexts
  /\ shown' = IF empty THEN shown ELSE Shows("text", 0)
  /\ UNCHANGED <<asked, step, mint, taken, read, drawing>>

PartialImageGenerated ==
  /\ Replies /\ drawing.at <= Pictures
  /\ read' = [read EXCEPT !.partial = drawing.at]
  /\ drawing' = [drawing EXCEPT !.begun = TRUE]
  /\ UNCHANGED <<asked, step, mint, taken, shown>>

\* Mutant: the preview is kept beside the url.
Superseded_Kept == [read EXCEPT !.delivered = TRUE]

\* The url takes the preview's place.
Superseded == [read EXCEPT !.partial = 0, !.delivered = TRUE]

ImageGenerated ==
  /\ Replies /\ drawing.at <= Pictures
  /\ shown' = Shows("url", drawing.at)
  /\ read' = Superseded
  /\ drawing' = [at |-> drawing.at + 1, begun |-> FALSE]
  /\ UNCHANGED <<asked, step, mint, taken>>

\* solve_challenge: a puzzle has a token, an unsafe one raises, and any other
\* challenge is a refusal.
Challenge(kind) ==
  /\ Replies
  /\ CASE kind = "unsafe" -> Challenged
       [] kind = "unknown" -> GoesTo("refused")
       [] kind = "puzzle" ->
            /\ read' = IF read.answered THEN read
                       ELSE [read EXCEPT !.answered = TRUE, !.sends = @ + 1]
            /\ UNCHANGED <<asked, step, mint, taken, drawing, shown>>

\* chatMessageError and error: a throttle, a region, an invalid event.
ErrorFrame == Reads /\ \E how \in {"throttled", "refused"} : GoesTo(how)

\* Ends the turn with the picture in hand, if the last one is a preview.
EndsWith(how) ==
  /\ step' = how
  /\ shown' = IF read.partial = 0 THEN shown ELSE Shows("preview", read.partial)
  /\ UNCHANGED <<asked, mint, taken, read, drawing>>

SaysDone == Replies /\ EndsWith("done")

\* The socket closes, breaks or falls silent.  That ends a turn which has
\* its picture, and fails any other.
SocketEnds ==
  /\ Reads
  /\ IF read.delivered THEN GoesTo("cut")
     ELSE IF read.partial # 0 THEN EndsWith("cut")
     ELSE \E how \in Transport : GoesTo(how)

\* The client leaves: the streams and the socket are closed on the way up.
Leaves == step \notin Failures \cup {"done", "cut", "left"} /\ GoesTo("left")

ConsumerNext ==
  \/ GateOpens \/ GateFails
  \/ Land \/ CreateConversation \/ UploadImage \/ Compose \/ Connect
  \/ Opening \/ \E empty \in BOOLEAN : AppendText(empty)
  \/ PartialImageGenerated \/ ImageGenerated
  \/ \E kind \in {"puzzle", "unknown", "unsafe"} : Challenge(kind)
  \/ ErrorFrame \/ SaysDone \/ SocketEnds \/ Leaves

ConsumerSpec == ConsumerInit /\ [][ConsumerNext]_turnVars
-----------------------------------------------------------------------------
Painted == {i \in DOMAIN shown : shown[i][2] # "text"}

(* What the client sees is one attempt's, and no picture is given twice,   *)
(* as preview and by url.  A turn that ends well either was told so by     *)
(* upstream or brought a picture ("a truncated sentence must not pass as a *)
(* finished answer"), and brought one if upstream had begun to draw; and   *)
(* its question was sent once, and once more for a challenge.              *)
TurnShownOnce ==
  /\ \A i \in DOMAIN shown : shown[i][1] = shown[1][1]
  /\ \A i, j \in Painted : shown[i][3] = shown[j][3] => i = j
  /\ step = "cut" => Painted # {}
  /\ step \in {"done", "cut"} /\ (drawing.begun \/ drawing.at > 1) => Painted # {}
  /\ read.sends <= IF read.answered THEN 2 ELSE 1

(* "An image that is already in hand must be delivered however the socket  *)
(* dies": the last one upstream sent a preview of, too.                    *)
PictureInHand == step = "cut" /\ drawing.begun => \E i \in Painted : shown[i][3] = drawing.at
=============================================================================
