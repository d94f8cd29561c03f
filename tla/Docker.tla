------------------------------- MODULE Docker -------------------------------
(***************************************************************************)
(* The Docker side as a whole: a behaviour follows one session, under      *)
(* execCapture or under the runner (DockerSession), or the backend with    *)
(* its file clients (DockerBackend), whose sessions close as               *)
(* CloseEndsGoroutines says.                                               *)
(***************************************************************************)
EXTENDS DockerSession, DockerBackend

VARIABLE view    \* "session" or "backend"

dockerVars == <<vars, backendVars, view>>

DockerInit ==
    /\ view \in {"session", "backend"}
    /\ Init /\ (view = "backend" => readsAll) /\ BackendInit

DockerNext ==
    \/ view = "session" /\ Next /\ UNCHANGED <<backendVars, view>>
    \/ view = "backend" /\ BackendNext /\ UNCHANGED <<vars, view>>

(* Nobody has to call Files or Close. *)
DockerSpec == DockerInit /\ [][DockerNext]_dockerVars /\ SessionFairness
=============================================================================
