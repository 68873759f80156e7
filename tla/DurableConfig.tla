--------------------------- MODULE DurableConfig ---------------------------
(***************************************************************************)
(* What saving a configuration promises: config.json goes from one whole   *)
(* file to the whole configuration the program holds, in a single step,    *)
(* whatever happens to the process or to the machine meanwhile.  A         *)
(* configuration is a number, 0 is the built-in one.                       *)
(***************************************************************************)
EXTENDS Naturals

VARIABLES file,      \* what config.json holds
          up,        \* the program runs
          current    \* the configuration it holds then

Foreign == [kind : {"none", "corrupt", "legacy"}, version : Nat]
Saved(c) == [kind |-> "config", version |-> c]
Whole(f) == f \in Foreign \/ f \in [kind : {"config"}, version : Nat]

Init == Whole(file) /\ up = FALSE /\ current = 0

\* Config::load at start-up: what the file says, or the defaults.
Load == /\ ~up /\ up' = TRUE
        /\ current' \in {0} \cup {v \in {file.version} : file.kind \in {"config", "legacy"}}
        /\ UNCHANGED file

\* The user, or an endpoint id a running stream has found.
Edit == up /\ up' = TRUE /\ current' \in Nat /\ UNCHANGED file

\* A successful Config::save.
Commit == up /\ file' = Saved(current) /\ UNCHANGED <<up, current>>

\* The program ends, by itself or not.
Stop == up' = FALSE /\ current' = 0 /\ UNCHANGED file

\* Somebody edits or deletes config.json while the program does not run.
Tamper == ~up /\ file' \in Foreign /\ UNCHANGED <<up, current>>

Next == Load \/ Edit \/ Commit \/ Stop \/ Tamper
Spec == Init /\ [][Next]_<<file, up, current>>
============================================================================
