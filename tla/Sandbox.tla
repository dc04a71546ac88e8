------------------------------- MODULE Sandbox -------------------------------
(***************************************************************************)
(* The execution of scripts (tools/sandbox.py, tools/builtins/             *)
(* python_exec.py).  Every run of a workspace writes into one directory;   *)
(* what a run produced is found by comparing it with a picture taken       *)
(* before.  A script whose time is up is killed as a process, and lives on *)
(* as a container; the container runtime comes and goes.                   *)
(***************************************************************************)
EXTENDS Integers, Sequences, FiniteSets, SequencesExt, Functions

CONSTANTS
  Caller,              \* who runs scripts
  TaskOf,              \* the task each of them works for
  Names,               \* the name each path of the directory ends in, in the order of the paths
  Configured,          \* values of sandbox.mode
  MaxRuns, MaxWrites   \* bounds

VARIABLES
  mode,                \* sandbox.mode
  docker,              \* whether the container runtime answers
  sandbox,             \* the files of the directory: who wrote them, and when
  artifacts,           \* artifacts/<task>/<name>: the run and the path it came from
  run,                 \* what each caller is doing
  result,              \* what its last run came to
  orphans,             \* runs whose container went on after the timeout
  runs, clock

vars == <<mode, docker, sandbox, artifacts, run, result, orphans, runs, clock>>

Path == DOMAIN Names
Idle == [at |-> "idle"]
Never == [id |-> 0]

With(f, x, e) == [y \in DOMAIN f \cup {x} |-> IF y = x THEN e ELSE f[y]]

-----------------------------------------------------------------------------
Active == {c \in Caller : run[c].at # "idle"}

resolved_mode == IF mode = "auto" THEN (IF docker THEN "container" ELSE "process") ELSE mode

\* SandboxRunner.run, up to the backend; `mixed` (a ghost) tells that other scripts were about.
Begin(c) ==
  /\ run[c] = Idle /\ runs < MaxRuns
  /\ runs' = runs + 1
  /\ LET mixed == Active # {} \/ orphans # {}
     IN  run' = [d \in Caller |->
           IF d = c THEN [at |-> "snapshot", id |-> runs + 1, mode |-> resolved_mode, before |-> <<>>, ran |-> "none",
                          ok |-> FALSE, left |-> {}, wrote |-> {}, found |-> {}, mixed |-> mixed]
           ELSE IF d \in Active THEN [run[d] EXCEPT !.mixed = TRUE] ELSE run[d]]
  /\ UNCHANGED <<mode, docker, sandbox, artifacts, result, orphans, clock>>

\* _snapshot; the script file of another run may be gone between is_file and stat, and then run raises.
Snapshot(c) ==
  /\ run[c].at = "snapshot"
  /\ \/ /\ run' = [run EXCEPT ![c].at = "backend", ![c].before = [p \in DOMAIN sandbox |-> sandbox[p].stamp]]
        /\ UNCHANGED result
     \/ /\ \E d \in Caller \ {c} : run[d].at = "script" /\ run[d].ran = "process"
        /\ run' = [run EXCEPT ![c] = Idle]
        /\ result' = [result EXCEPT ![c] = Never]
  /\ UNCHANGED <<mode, docker, sandbox, artifacts, orphans, runs, clock>>

\* _run_container and _run_process, up to the script: a runtime that is gone by now is an error.
Backend_Falls(c) ==     \* mutant: without a runtime the script runs as a process
  /\ run[c].at = "backend"
  /\ run' = [run EXCEPT ![c].at = "script", ![c].ran = IF run[c].mode = "container" /\ docker THEN "container" ELSE "process"]
  /\ UNCHANGED <<mode, docker, sandbox, artifacts, result, orphans, runs, clock>>

Backend(c) ==
  /\ run[c].at = "backend"
  /\ run' = IF run[c].mode = "container" /\ ~docker THEN [run EXCEPT ![c].at = "collect", ![c].left = DOMAIN sandbox]
            ELSE [run EXCEPT ![c].at = "script", ![c].ran = run[c].mode]
  /\ UNCHANGED <<mode, docker, sandbox, artifacts, result, orphans, runs, clock>>

\* The script writes a file, with the time of now or (copy2, an archive) an old one.
WriteFile(id, p, old) == /\ clock < MaxWrites /\ clock' = clock + 1
                         /\ sandbox' = With(sandbox, p, [by |-> id, stamp |-> IF old THEN 0 ELSE clock + 1])

Script(c, p, old) ==
  /\ run[c].at = "script" /\ WriteFile(run[c].id, p, old)
  /\ run' = [run EXCEPT ![c].wrote = IF old /\ p \in DOMAIN run[c].before THEN @ \ {p} ELSE @ \cup {p}]
  /\ UNCHANGED <<mode, docker, artifacts, result, orphans, runs>>

\* It ends, well or badly, or its time is up.
Ends(c) ==
  /\ run[c].at = "script"
  /\ \/ /\ \E ok \in BOOLEAN : run' = [run EXCEPT ![c].at = "collect", ![c].left = DOMAIN sandbox, ![c].ok = ok]
        /\ UNCHANGED orphans
     \/ /\ run' = [run EXCEPT ![c].at = "collect", ![c].left = DOMAIN sandbox,
                                   ![c].mixed = @ \/ run[c].ran = "container"]
        /\ orphans' = IF run[c].ran = "container" THEN orphans \cup {run[c].id} ELSE orphans
  /\ UNCHANGED <<mode, docker, sandbox, artifacts, result, runs, clock>>

Orphan(id) ==
  /\ id \in orphans
  /\ \/ /\ \E p \in Path : WriteFile(id, p, FALSE)
        /\ UNCHANGED orphans
     \/ orphans' = orphans \ {id} /\ UNCHANGED <<sandbox, clock>>
  /\ UNCHANGED <<mode, docker, artifacts, run, result, runs>>

\* _collect_artifacts: the paths are listed when the script has ended, and taken one by one in their order.
produced_All(before, p) == TRUE                       \* mutant: nothing is compared
produced(before, p) == p \notin DOMAIN before \/ sandbox[p].stamp > before[p]

Collect(c) ==
  /\ run[c].at = "collect" /\ run[c].left # {}
  /\ \E p \in run[c].left :
       /\ \A q \in run[c].left : p <= q
       /\ IF produced(run[c].before, p)
          THEN /\ artifacts' = With(artifacts, <<TaskOf[c], Names[p]>>, [by |-> sandbox[p].by, path |-> p])
               /\ run' = [run EXCEPT ![c].left = @ \ {p}, ![c].found = @ \cup {p}]
          ELSE run' = [run EXCEPT ![c].left = @ \ {p}] /\ UNCHANGED artifacts
  /\ UNCHANGED <<mode, docker, sandbox, result, orphans, runs, clock>>

\* PythonExecuteTool.execute: only a script that went well has its artifacts in its result.
Return(c) ==
  /\ run[c].at = "collect" /\ run[c].left = {}
  /\ LET mine == {name \in Range(Names) : <<TaskOf[c], name>> \in DOMAIN artifacts}
     IN  result' = [result EXCEPT ![c] =
           [id |-> run[c].id, ok |-> run[c].ok, ran |-> run[c].ran, mixed |-> run[c].mixed, wrote |-> run[c].wrote, found |-> run[c].found,
            artifacts |-> IF run[c].ok THEN run[c].found ELSE {},
            kept |-> {artifacts[<<TaskOf[c], name>>] : name \in mine}]]
  /\ run' = [run EXCEPT ![c] = Idle]
  /\ UNCHANGED <<mode, docker, sandbox, artifacts, orphans, runs, clock>>

\* The container runtime stops or starts.
Daemon == /\ mode # "process" /\ docker' = ~docker
          /\ UNCHANGED <<mode, sandbox, artifacts, run, result, orphans, runs, clock>>

Init == /\ mode \in Configured /\ docker = TRUE /\ sandbox = <<>> /\ artifacts = <<>>
        /\ run = [c \in Caller |-> Idle] /\ result = [c \in Caller |-> Never]
        /\ orphans = {} /\ runs = 0 /\ clock = 0

Next == \/ \E c \in Caller : \/ Begin(c) \/ Snapshot(c) \/ Backend(c) \/ Ends(c) \/ Collect(c) \/ Return(c)
                             \/ \E p \in Path, old \in BOOLEAN : Script(c, p, old)
        \/ \E id \in orphans : Orphan(id)
        \/ Daemon

Spec == Init /\ [][Next]_vars

-----------------------------------------------------------------------------
TypeOK == /\ mode \in Configured /\ docker \in BOOLEAN
          /\ DOMAIN sandbox \subseteq Path /\ \A p \in DOMAIN sandbox : sandbox[p].by \in 1..runs /\ sandbox[p].stamp \in 0..clock
          /\ DOMAIN artifacts \subseteq {TaskOf[c] : c \in Caller} \X Range(Names)
          /\ \A c \in Caller : run[c].at \in {"idle", "snapshot", "backend", "script", "collect"}
          /\ orphans \subseteq 1..runs

\* "container | docker/podman" is what the configuration asks for where
\* scripts must not reach the host (ADR-013): with it no script is ever run as
\* a process, however the runtime comes and goes between the two looks at it;
\* and what was decided at the start of a run is what its result says.
NeverFallsBack ==
  \A c \in Active : run[c].ran # "none" => /\ mode = "container" => run[c].ran = "container"
                                           /\ run[c].ran = run[c].mode

\* A run alone in the directory finds only what its script left there, and
\* everything of it except what carries an older date than the file it
\* replaced: all of it is under the task's artifacts, where of two files with
\* one name the later path stays.
CollectsItsOwn ==
  \A c \in Caller : result[c].id # 0 /\ ~result[c].mixed =>
    LET r == result[c]
    IN  /\ r.found = r.wrote
        /\ \A p \in r.wrote : \E a \in r.kept : a.by = r.id /\ a.path >= p /\ Names[a.path] = Names[p] /\ a.path \in r.wrote
        /\ r.artifacts \in {{}, r.wrote}
=============================================================================
