------------------------------ MODULE MCOffice ------------------------------
(* An instance of Office for TLC.                                          *)
EXTENDS Office, TLC

CONSTANTS pm, kid, repo

TwoPosts == {<<1, 1>>, <<2, 1>>}
OneRepo == [j \in {pm, kid} |-> repo]
\* Two lines of one key and one of another.
ThreeLines == {<<1, 1>>, <<1, 2>>, <<2, 1>>}
\* All rotated segments kept or one, and a line or two in the live file.
SomeLimits == {<<-1, 1>>, <<1, 1>>, <<-1, 2>>}
=============================================================================
