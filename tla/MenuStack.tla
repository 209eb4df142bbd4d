----------------------------- MODULE MenuStack -----------------------------
(***************************************************************************)
(* What the nested LCD menus promise, with no files, items or encoder: the *)
(* menus on screen form a stack whose bottom is the main menu and whose    *)
(* depth never exceeds MaxMenuNesting.  One user action may run a command  *)
(* of several parts ("return|return|menu"), each of which pushes a menu    *)
(* (ignored when the stack is full) or pops one (never the main menu).  A  *)
(* timeout goes back to the main menu alone.                               *)
(***************************************************************************)
EXTENDS Naturals, Sequences

CONSTANTS
  MenuNames,        \* names a menu action can load
  MainMenu,         \* the root menu
  MaxMenuNesting,   \* depth limit
  MaxParts          \* bound on the parts of one command

VARIABLE stack

\* A command part: "pop", or the name of a menu to push
Parts == {"pop"} \cup MenuNames

\* One part applied to a stack; popping the root leaves no stack at all,
\* the empty sequence, from which nothing follows
ApplyPart(s, p) ==
  CASE s = <<>> -> <<>>
    [] p = "pop" -> IF Len(s) > 1 THEN SubSeq(s, 1, Len(s) - 1) ELSE <<>>
    [] OTHER -> IF Len(s) < MaxMenuNesting THEN Append(s, p) ELSE s

RECURSIVE ApplyParts(_, _)
ApplyParts(s, ps) ==
  IF ps = <<>> THEN s ELSE ApplyParts(ApplyPart(s, Head(ps)), Tail(ps))

Commands == UNION {[1 .. k -> Parts] : k \in 1 .. MaxParts}

Init == stack = <<MainMenu>>

\* A command runs its parts in order
Command == \E ps \in Commands : /\ ApplyParts(stack, ps) # <<>>
                                /\ stack' = ApplyParts(stack, ps)

\* Inactivity timeout
Home == stack' = <<MainMenu>>

Next == Command \/ Home

Spec == Init /\ [][Next]_stack
=============================================================================
