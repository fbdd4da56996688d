--------------------------- MODULE MCStreamSource ---------------------------
(* Small instances of StreamSource. *)
EXTENDS StreamSource

AnyLimit == {-1, 1}
TwoAttempts == {2}

=============================================================================
