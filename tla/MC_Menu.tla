------------------------------- MODULE MC_Menu -------------------------------
(***************************************************************************)
(* Menu folders for model checking.  A line is [cmd, show, action, file,   *)
(* lines, lens]: the command word, the printer state a button tests, the   *)
(* action's '|'-separated parts, the L file, the N lines of a file list,   *)
(* and the lengths of the strings ParseMenuLine appends to commandBuffer;  *)
(* a value or alter line adds its N (val).                                 *)
(***************************************************************************)
EXTENDS Menu, TLC

Ln(cmd, show, action, file, lines, lens) ==
  [cmd |-> cmd, show |-> show, action |-> action, file |-> file,
   lines |-> lines, lens |-> lens, val |-> 0]
Text(len) == Ln("text", "always", <<>>, "main", 0, <<len>>)
Alter(n) == [Ln("alter", "always", <<>>, "main", 0, <<>>) EXCEPT !.val = n]
Value(n) == [Ln("value", "always", <<>>, "main", 0, <<>>) EXCEPT !.val = n]
Button(show, action, file, lens) == Ln("button", show, action, file, 0, lens)
Files(action, lines) == Ln("files", "always", action, "main", lines, <<0, 0, 0>>)

\* main: a title, the tool number to alter, a "menu" button shown when
\* idle and a G-code button shown while printing, buttons to a menu that
\* overflows commandBuffer and to one with a bad line, and tool 0's active
\* temperature shown.  prep: back, a file list of one line whose command
\* returns, a button that pushes prep again, and tool 0's active
\* temperature and the speed factor to alter.
MC_NavFiles ==
  [f \in {"main", "prep", "big", "broken"} |->
     CASE f = "main" ->
            << Text(0), Alter(520),
               Button("idle", <<"menu">>, "prep", <<1, 1, 1>>),
               Button("printing", <<"gcode">>, "main", <<1, 1, 1>>),
               Button("always", <<"big">>, "main", <<0, 0, 0>>),
               Button("always", <<"broken">>, "main", <<0, 0, 0>>), Value(100) >>
       [] f = "prep" ->
            << Button("always", <<"return">>, "main", <<1, 1, 1>>),
               Files(<<"gcode", "return">>, 1),
               Ln("image", "always", <<>>, "main", 0, <<>>),
               Ln("comment", "always", <<>>, "main", 0, <<>>),
               Button("always", <<"prep">>, "main", <<0, 0, 0>>),
               Alter(100), Alter(500) >>
       [] f = "big" ->
            << Text(10), Button("always", <<"return">>, "main", <<2, 4, 2>>) >>
       [] f = "broken" ->
            << Text(0), Ln("bogus", "always", <<>>, "main", 0, <<>>) >>]

\* A main menu with a "return" button
MC_RootReturnFiles ==
  [f \in {"main"} |-> << Button("always", <<"return">>, "main", <<1, 1, 1>>) >>]

\* A main menu with the bed heater's active temperature to alter
MC_BedFiles == [f \in {"main"} |-> << Alter(180) >>]

\* Tool 0 selected, at 0 degrees; bed at 60; speed factor 100%
MC_Machine == (100 :> 0) @@ (180 :> 60) @@ (500 :> 100) @@ (520 :> 0)

MC_Clicks == {0, 1, -1}
=============================================================================
