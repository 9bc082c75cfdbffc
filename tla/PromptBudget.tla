----------------------------- MODULE PromptBudget -----------------------------
(***************************************************************************)
(* compact_consumer_prompt: what of a turn fits into the one text part of  *)
(* a consumer turn.  A text is its length, and what is kept of it a        *)
(* length, too: _head_tail and the slices keep as much as they may.        *)
(***************************************************************************)
EXTENDS Integers

CONSTANTS
  Budget,    \* consumer_prompt_max_chars
  Between,   \* the length of what separates the parts of the context
  Rule,      \* and of what separates the context from the prompt
  Longest    \* of the texts

ASSUME BudgetAssumption ==
  Budget \in Nat \ {0} /\ Longest \in Nat /\ Between \in Nat /\ Rule \in Nat /\ Between <= Rule

VARIABLES
  needs, \* the lengths of the turn's texts
  kept,  \* what is kept of each
  fit    \* "open", or how it ended: "whole", "cut" or "too long"

promptVars == <<needs, kept, fit>>

TextLengths == [contract : 0 .. Longest, system : 0 .. Longest, recent : 0 .. Longest,
                tool : 0 .. Longest, prompt : 0 .. Longest]
-----------------------------------------------------------------------------
Least(a, b) == IF a <= b THEN a ELSE b

\* _head_tail
HeadTail(length, limit) == IF limit <= 0 THEN 0 ELSE Least(length, limit)

Piece(length) == IF length = 0 THEN 0 ELSE length + Between

\* _join: every part of the context ends in a separator, the last in the rule.
Joined(context, prompt) == IF context = 0 THEN prompt ELSE context - Between + Rule + prompt

Whole(t) == Joined(Piece(t.contract) + Piece(t.system) + Piece(t.recent + t.tool), t.prompt)

\* validate_consumer_required_content
Rejected(t) ==
  /\ t.contract # 0
  /\ \/ t.contract + Rule >= Budget
     \/ t.prompt <= Budget /\ t.contract + Rule + t.prompt > Budget

\* Mutant: the separator of the new part is not counted.
Capacity_NoSeparator(context, prompt) == Budget - Joined(context, prompt)

\* _context_capacity
Capacity(context, prompt) ==
  Budget - Joined(context, prompt) - (IF context = 0 THEN Rule ELSE Between)

\* The prompt first, then the latest tool result, the newest of the rest of
\* the transcript, and the system's text.
Fitted(t) ==
  LET contract == Piece(t.contract)
      prompt == HeadTail(t.prompt, Budget - (IF contract = 0 THEN 0 ELSE t.contract + Rule))
      tool == HeadTail(t.tool, Capacity(contract, prompt))
      recent == HeadTail(t.recent, Capacity(contract + Piece(tool), prompt))
      system == HeadTail(t.system, Capacity(contract + Piece(tool) + Piece(recent), prompt)) IN
  [contract |-> t.contract, system |-> system, recent |-> recent, tool |-> tool, prompt |-> prompt]

BudgetInit == needs \in TextLengths /\ kept = needs /\ fit = "open"

Compact ==
  /\ fit = "open"
  /\ \/ Whole(needs) <= Budget /\ fit' = "whole" /\ kept' = needs
     \/ Whole(needs) > Budget /\ Rejected(needs) /\ fit' = "too long" /\ kept' = needs
     \/ Whole(needs) > Budget /\ ~ Rejected(needs) /\ fit' = "cut" /\ kept' = Fitted(needs)
  /\ UNCHANGED needs

BudgetSpec == BudgetInit /\ [][Compact]_promptVars
-----------------------------------------------------------------------------
\* What is sent: the pieces of a transcript that was cut are two parts.
Sent(k) ==
  Joined(Piece(k.contract) + Piece(k.system) + Piece(k.recent) + Piece(k.tool), k.prompt)

(* "Build one Consumer text part no longer than max_chars": what is sent   *)
(* fits, the tool contract is never cut, and a text is kept only if those  *)
(* that come before it are kept whole: the prompt, the latest tool result, *)
(* the rest of the transcript, the system's text.                          *)
PromptFits ==
  fit = "cut" =>
    /\ Sent(kept) <= Budget
    /\ kept.contract = needs.contract
    /\ kept.tool # 0 => kept.prompt = needs.prompt
    /\ kept.recent # 0 => kept.prompt = needs.prompt /\ kept.tool = needs.tool
    /\ kept.system # 0 =>
         kept.prompt = needs.prompt /\ kept.tool = needs.tool /\ kept.recent = needs.recent
=============================================================================
