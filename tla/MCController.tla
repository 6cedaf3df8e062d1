---------------------------- MODULE MCController ----------------------------
(***************************************************************************)
(* The instances of Controller that TLC checks. Constants bound what may   *)
(* happen: the calls of Start and Stop (model values), how often the       *)
(* container is started, how often `mcbot server stop` is run. Between     *)
(* these bounds everything interleaves with everything.                    *)
(***************************************************************************)
EXTENDS Controller

\* The log lines of an instance.
OnlyReady    == {"ready"}
OnlyFail     == {"fail"}
OnlyShutdown == {"shutdown"}
=============================================================================
