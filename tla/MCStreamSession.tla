---------------------------- MODULE MCStreamSession ----------------------------
(* Instances of StreamSession for TLC. *)
EXTENDS StreamSession

Mode(j, w, r, c, p) == [jitter |-> j, watchdog |-> w, reconnects |-> r, calls |-> c, packets |-> p]

\* Without a limit on reconnects, which is the default, and with up to two: restarts, with two
\* packets; one life through the jitter buffer; and with the watchdog.
ShortLives ==
  {Mode(FALSE, FALSE, 1, 4, 2), Mode(FALSE, FALSE, -1, 3, 1), Mode(FALSE, FALSE, 2, 3, 0), Mode(TRUE, FALSE, 1, 1, 2),
   Mode(TRUE, FALSE, -1, 2, 1), Mode(FALSE, TRUE, -1, 1, 1), Mode(FALSE, TRUE, 1, 2, 0)}

=============================================================================
