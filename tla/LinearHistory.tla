---------------------------- MODULE LinearHistory ----------------------------
(***************************************************************************)
(* What the Responses API promises about one session: a linear history of  *)
(* responses.  A response continues the current head or starts a new root, *)
(* the head moves only to a response that was never used before, and a     *)
(* loss of memory falls back to a saved head with its saved links.         *)
(***************************************************************************)
CONSTANTS Ids, None

VARIABLES head,   \* the response the next continuation must name
          links,  \* the committed <<parent, child>> pairs
          saved,  \* the <<head, links>> a restart returns to
          used    \* every response ever committed

hvars == <<head, links, saved, used>>

Init == head = None /\ links = {} /\ saved = <<None, {}>> /\ used = {}

Fresh(c) == c \in Ids \ used /\ used' = used \cup {c}

Root(c) == Fresh(c) /\ head' = c /\ UNCHANGED <<links, saved>>

Extend(c) ==
  /\ head # None
  /\ Fresh(c)
  /\ head' = c
  /\ links' = links \cup {<<head, c>>}
  /\ UNCHANGED saved

\* A turn ends on a session the store has already dropped.
Elsewhere(c) == Fresh(c) /\ UNCHANGED <<head, links, saved>>

Save == saved' = <<head, links>> /\ UNCHANGED <<head, links, used>>

Forget == head' = None /\ links' = {} /\ UNCHANGED <<saved, used>>

Recover == <<head, links>>' = saved /\ UNCHANGED <<saved, used>>

Next ==
  \/ \E c \in Ids : Root(c) \/ Extend(c) \/ Elsewhere(c)
  \/ Save \/ Forget \/ Recover

Spec == Init /\ [][Next]_hvars
=============================================================================
