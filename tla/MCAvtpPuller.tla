---------------------------- MODULE MCAvtpPuller ----------------------------
(* Small instances of AvtpPuller.                                          *)
EXTENDS AvtpPuller

\* Probing, and not; with a time limit on reads, and without.
SomeConfigs ==
  {[read |-> "timeout", format |-> "auto"], [read |-> "block", format |-> "given"]}
Forward == {1}

\* A talker that names its codec sends pictures only and does not restart: neither looks at the hint.
MCNext == Next /\ (talker.hints => talker'.audio = 0 /\ talker'.epoch = 0)
MCSpec == Init /\ [][MCNext]_vars

=============================================================================
