-------------------------------- MODULE Once --------------------------------
(***************************************************************************)
(* `tempcheck once [--save]` (src/app.rs): one collection, printed as JSON *)
(* on stdout and, with --save, inserted into the database.  The process    *)
(* ends with the first `?` that fails; its exit status is all that a       *)
(* script learns of how far it came.                                       *)
(*                                                                         *)
(* Operators introduced as a "faulty form" are not part of Next.           *)
(***************************************************************************)
EXTENDS Collector

VARIABLES
    save,     \* --save
    at,       \* "collect", "print", "open", "insert" or "over"
    printed,  \* the readings on stdout
    saved,    \* the readings in the database
    exit      \* "none" yet, "zero" or "nonzero"

onceVars == <<save, at, printed, saved, exit>>
allVars  == <<vars, onceVars>>

OnceInit ==
    /\ Init
    /\ save \in BOOLEAN
    /\ at = "collect"
    /\ printed = {} /\ saved = {}
    /\ exit = "none"

Ends(status) ==
    /\ at' = "over"
    /\ exit' = status

\* A step of collect().
Collecting == Next /\ UNCHANGED onceVars

\* collector.collect()? has returned.
Collected ==
    /\ at = "collect" /\ outcome # "none"
    /\ IF outcome = "Ok" THEN at' = "print" /\ UNCHANGED exit
                         ELSE Ends("nonzero")
    /\ UNCHANGED <<vars, save, printed, saved>>

\* println!; without --save the command is over.
PrintReadings ==
    /\ at = "print"
    /\ printed' = all
    /\ IF save THEN at' = "open" /\ UNCHANGED exit
               ELSE Ends("zero")
    /\ UNCHANGED <<vars, save, saved>>

OpenStore ==
    /\ at = "open"
    /\ at' = "insert"
    /\ UNCHANGED <<vars, save, printed, saved, exit>>

\* The next INSERT of insert_readings commits.
InsertRow ==
    /\ at = "insert"
    /\ \E s \in all \ saved : saved' = saved \union {s}
    /\ UNCHANGED <<vars, save, at, printed, exit>>

InsertDone ==
    /\ at = "insert" /\ saved = all
    /\ Ends("zero")
    /\ UNCHANGED <<vars, save, printed, saved>>

\* Faulty form of Fails: the error of an insertion is logged, as the daemon does.
FailsLogged ==
    /\ at \in {"print", "open", "insert"}
    /\ at = "insert" => saved # all
    /\ Ends(IF at = "insert" THEN "zero" ELSE "nonzero")
    /\ UNCHANGED <<vars, save, printed, saved>>

\* stdout is closed (println! panics), the database does not open, or an
\* INSERT fails: rows already inserted stay.
Fails ==
    /\ at \in {"print", "open", "insert"}
    /\ at = "insert" => saved # all
    /\ Ends("nonzero")
    /\ UNCHANGED <<vars, save, printed, saved>>

\* A signal ends the process: nothing handles SIGINT here.
Killed ==
    /\ at # "over"
    /\ Ends("nonzero")
    /\ UNCHANGED <<vars, save, printed, saved>>

OnceNext ==
    \/ at = "collect" /\ Collecting
    \/ Collected
    \/ PrintReadings
    \/ OpenStore
    \/ InsertRow
    \/ InsertDone
    \/ Fails
    \/ Killed

OnceSpec == OnceInit /\ [][OnceNext]_allVars

-----------------------------------------------------------------------------
\* Exit status zero means that the printed readings, at least one, are every
\* reading collected and, with --save, all in the database; and the database
\* never holds one that was not printed (src/config.rs: "Also persist the
\* reading"), wherever the command failed or was killed.
ExitStatusTells ==
    /\ exit = "zero" => /\ printed = all /\ printed # {}
                        /\ save => saved = printed
    /\ saved \subseteq printed
=============================================================================
