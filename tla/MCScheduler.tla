---------------------------- MODULE MCScheduler -----------------------------
(* Scheduler with five small strategies over four screens. *)
EXTENDS Scheduler

MCScreenIds == {"grid", "list", "plain", "spare"}

Grid == [items |-> << >>, loop |-> FALSE, trans |-> 0, tiles |-> <<<<1, 2>>, << >>, <<1>>, <<2, 1, 1>>>>]
List == [items |-> <<2, 1>>, loop |-> TRUE, trans |-> 1, tiles |-> << >>]
Once == [items |-> <<1, 2, 1>>, loop |-> FALSE, trans |-> 0, tiles |-> << >>]
Plain == [items |-> << >>, loop |-> FALSE, trans |-> 0, tiles |-> << >>]

\* A loop with a transition and a cut, and a screen the tour does not show.
Loop == [enabled |-> TRUE, loop |-> TRUE,
         entries |-> <<[screen |-> "grid", dwell |-> 3, trans |-> 0],
                       [screen |-> "list", dwell |-> 2, trans |-> 2]>>,
         screens |-> [s \in {"grid", "list", "spare"} |->
                       CASE s = "grid" -> Grid [] s = "list" -> List [] OTHER -> Once]]

\* A longer tour that ends, with one screen twice.
Line == [enabled |-> TRUE, loop |-> FALSE,
         entries |-> <<[screen |-> "plain", dwell |-> 1, trans |-> 0],
                       [screen |-> "grid", dwell |-> 1, trans |-> 2],
                       [screen |-> "plain", dwell |-> 1, trans |-> 1]>>,
         screens |-> [s \in {"grid", "plain"} |-> IF s = "grid" THEN Grid ELSE Plain]]

\* No tour: whatever is pinned is shown.
Off == [enabled |-> FALSE, loop |-> FALSE, entries |-> << >>,
        screens |-> [s \in {"grid", "spare"} |-> IF s = "grid" THEN Grid ELSE Once]]

\* A tour read before, and screens read after, the screen "plain" was deleted.
Torn == [enabled |-> TRUE, loop |-> TRUE,
         entries |-> <<[screen |-> "list", dwell |-> 1, trans |-> 1],
                       [screen |-> "plain", dwell |-> 1, trans |-> 1]>>,
         screens |-> [s \in {"list"} |-> List]]

\* What a wall with one screen gets: a tour that goes from that screen to itself.
Alone == [enabled |-> TRUE, loop |-> TRUE,
          entries |-> <<[screen |-> "grid", dwell |-> 2, trans |-> 0]>>,
          screens |-> [s \in {"grid"} |-> [Plain EXCEPT !.tiles = <<<<2, 1, 1>>>>]]]

MCStrategies == {Loop, Line, Off, Torn, Alone}
MCAlone == {Alone}
=============================================================================
