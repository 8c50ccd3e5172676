------------------------------ MODULE MCDataPath -------------------------------
(***************************************************************************)
(* Values for model-checking DataPath.                                     *)
(***************************************************************************)
EXTENDS DataPath, TLC

\* Two senders, 3 on the host of receiver 2 and 4 on a host of its own.
MCHost == [r \in 1..4 |-> CASE r = 1 -> "h1" [] r = 2 -> "h2" [] r = 3 -> "h2" [] OTHER -> ""]

\* A minimum below the number of receivers by more than there are, and none.
MCMinimums == {-3, 0}

\* Four tokens of each receiver in the first run, one in the second.
MCMaxSent == <<4, 1>>

\* The second sender of art events has one product more.
MCRegistered == (1 :> {"p"}) @@ (2 :> {"p", "q"})

\* Subruns that two files share.
MCInputFiles == << << <<1, 1>>, <<1, 2>>, <<2, 1>> >>, << <<2, 2>>, <<3, 1>> >>, << <<3, 2>>, <<3, 3>> >> >>
===============================================================================
