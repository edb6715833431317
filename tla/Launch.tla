------------------------------- MODULE Launch -------------------------------
(***************************************************************************)
(* From the launcher script to a daemon that owns its storage root          *)
(* (launcher.py, config/loader.py, daemon/single_instance.py).  Launchers   *)
(* share a checkout, a virtual environment, a configuration and a storage   *)
(* root, and any of them may be killed between two steps.                   *)
(***************************************************************************)
EXTENDS Naturals, FiniteSets

CONSTANTS
    Launcher,     \* launcher runs on this machine, each with its commands
    Pid,          \* process ids the machine hands out
    SecretKey,    \* backend keys the operator writes into the configuration
    WithUv,       \* uv and a uv.lock are there
    Keyring,      \* a secret store is available
    KeyVariable,  \* the variable named by the starter configuration is set
    MaxLaunches, MaxCrashes, MaxReuses, MaxEdits  \* bounds

ASSUME LaunchAssumption ==
    /\ {WithUv, Keyring, KeyVariable} \subseteq BOOLEAN
    /\ {MaxLaunches, MaxCrashes, MaxReuses, MaxEdits} \subseteq Nat
    /\ "none" \notin Pid \cup Launcher \cup SecretKey

VARIABLES
    venv,          \* "none", "bare" (an interpreter, no pip), "pip" or "installed"
    config,        \* the configuration file: how it names its backend key
    secret,        \* the keyring's entry for the backend
    launch,        \* each launcher: its stage, its process id, the key it has read
    lockFile,      \* the process id daemon.lock records
    locked,        \* who holds the operating system's lock on that file
    working,       \* launchers whose daemon has task rows in the RUNNING state
    recovered,     \* launchers whose rows another daemon's recovery failed
    strangers,     \* process ids in use by programs that are no daemon
    latest,        \* the key the operator wrote last
    overtaken,     \* the operator wrote while someone was about to write as well
    refusedAlone,  \* a daemon was refused while no daemon held the storage root
    launchUses     \* launches, kills, reuses of a process id and edits so far

launchVars == <<venv, config, secret, launch, lockFile, locked, working, recovered,
                strangers, latest, overtaken, refusedAlone, launchUses>>

fileVars == <<venv, config, secret, latest, overtaken>>
lockVars == <<lockFile, locked, working, recovered, refusedAlone>>

\* The stages in which a process of its own runs the daemon.
Claiming == {"guard", "claim", "stamp", "recover"}
Serving == Claiming \cup {"serve", "drain", "release"}
AtWork == {"serve", "drain"}
Loading == {"doctor", "load"}

Idle == [stage |-> "idle", pid |-> "none", read |-> "none", kept |-> FALSE]
Alive == strangers \cup {launch[l].pid : l \in {x \in Launcher : launch[x].stage \in Serving}}

MoveTo(l, stage) == launch' = [launch EXCEPT ![l].stage = stage]
LaunchFails(l) == launch' = [launch EXCEPT ![l] = Idle]

-----------------------------------------------------------------------------
\* execute_plan: one command after the other; a failing one ends the launch.
Begin(l, skipInstall) ==
    /\ launch[l].stage = "idle" /\ launchUses.launches < MaxLaunches
    /\ launchUses' = [launchUses EXCEPT !.launches = @ + 1]
    /\ IF venv # "none"
       THEN MoveTo(l, IF skipInstall THEN "look" ELSE "install") /\ UNCHANGED venv
       ELSE MoveTo(l, "pip") /\ venv' = "bare"
    /\ UNCHANGED <<config, secret, latest, overtaken, strangers>> /\ UNCHANGED lockVars

\* ensure_venv: EnvBuilder.create goes on to install pip.
AddPip(l) ==
    /\ launch[l].stage = "pip"
    /\ venv' = IF venv = "bare" THEN "pip" ELSE venv
    /\ MoveTo(l, "install")
    /\ UNCHANGED <<config, secret, latest, overtaken, strangers, launchUses>>
    /\ UNCHANGED lockVars

\* _resolve_install_args: uv needs no pip in the environment, pip does.
Install(l) ==
    /\ launch[l].stage = "install"
    /\ \/ (WithUv \/ venv # "bare") /\ venv' = "installed" /\ MoveTo(l, "look")
       \/ LaunchFails(l) /\ UNCHANGED venv
    /\ UNCHANGED <<config, secret, latest, overtaken, strangers, launchUses>>
    /\ UNCHANGED lockVars

\* The launcher looks for the configuration, init looks again and writes.
LookAtInterpreter(l) ==
    /\ launch[l].stage = "look"
    /\ IF config.form = "absent" THEN MoveTo(l, "init") ELSE MoveTo(l, "doctor")
    /\ UNCHANGED <<strangers, launchUses>> /\ UNCHANGED fileVars /\ UNCHANGED lockVars

InitLooks(l) ==
    /\ launch[l].stage = "init"
    /\ IF config.form = "absent" /\ venv = "installed" THEN MoveTo(l, "create") ELSE LaunchFails(l)
    /\ UNCHANGED <<strangers, launchUses>> /\ UNCHANGED fileVars /\ UNCHANGED lockVars

StarterConfig == [form |-> "variable", key |-> "none"]

InitWrites(l) ==
    /\ launch[l].stage = "create"
    /\ config' = StarterConfig
    /\ MoveTo(l, "doctor")
    /\ UNCHANGED <<venv, secret, latest, overtaken, strangers, launchUses>>
    /\ UNCHANGED lockVars

-----------------------------------------------------------------------------
\* load_config, by the doctor and by serve.  A key in plain text is put into the
\* keyring before the file is rewritten to refer to it.
KeptFirst(l) == IF secret = "none" THEN launch[l].read ELSE secret
Kept(l) == launch[l].read

ReadConfig(l) ==
    /\ launch[l].stage \in Loading /\ launch[l].read = "none" /\ ~launch[l].kept
    /\ config.form = "plain" /\ Keyring
    /\ launch' = [launch EXCEPT ![l].read = config.key]
    /\ UNCHANGED <<strangers, launchUses>> /\ UNCHANGED fileVars /\ UNCHANGED lockVars

KeepSecret(l) ==
    /\ launch[l].read # "none" /\ ~launch[l].kept
    /\ launch' = [launch EXCEPT ![l].kept = TRUE]
    /\ secret' = Kept(l)
    /\ UNCHANGED <<venv, config, latest, overtaken, strangers, launchUses>>
    /\ UNCHANGED lockVars

Rewrite(l) ==
    /\ launch[l].kept
    /\ config' = [form |-> "reference", key |-> "none"]
    /\ launch' = [launch EXCEPT ![l].read = "none", ![l].kept = FALSE]
    /\ UNCHANGED <<venv, secret, latest, overtaken, strangers, launchUses>>
    /\ UNCHANGED lockVars

\* load_config fails for a variable that is not set and for a reference that the
\* keyring cannot resolve.
SubstitutesEnv == config.form = "variable" => KeyVariable
ResolvesKeys == config.form = "reference" => Keyring /\ secret # "none"
Resolves == config.form # "absent" /\ SubstitutesEnv /\ ResolvesKeys

NothingToMigrate(l) ==
    /\ launch[l].stage \in Loading /\ launch[l].read = "none"
    /\ config.form = "plain" => ~Keyring

\* The doctor fails the launch for a configuration that does not load or a
\* ledger that is not writable; its other checks only warn.
Machine == [ledger : BOOLEAN, space : BOOLEAN, gh : BOOLEAN, backends : BOOLEAN]

CheckConfigLoadable == IF Resolves THEN "ok" ELSE "error"
CheckLedgerWritable(m) == IF m.ledger THEN "ok" ELSE "error"
CheckDiskSpace(m) == IF m.space THEN "ok" ELSE "warn"
CheckGhAuth(m) == IF m.gh THEN "ok" ELSE "warn"
CheckBackendsHealthy(m) == IF m.backends THEN "ok" ELSE "warn"

RunAllChecks(m) ==
    {CheckConfigLoadable, CheckLedgerWritable(m), CheckDiskSpace(m), CheckGhAuth(m)}
      \cup (IF CheckConfigLoadable = "ok" THEN {CheckBackendsHealthy(m)} ELSE {})

DoctorEnds(l) ==
    /\ launch[l].stage = "doctor" /\ NothingToMigrate(l)
    /\ \E m \in Machine :
         IF "error" \notin RunAllChecks(m) THEN MoveTo(l, "load") ELSE LaunchFails(l)
    /\ UNCHANGED <<strangers, launchUses>> /\ UNCHANGED fileVars /\ UNCHANGED lockVars

\* serve: a process of its own loads the configuration and builds the daemon.
ServeStarts(l) ==
    /\ launch[l].stage = "load" /\ NothingToMigrate(l)
    /\ \/ /\ Resolves
          /\ \E p \in Pid \ Alive : launch' = [launch EXCEPT ![l].stage = "guard", ![l].pid = p]
       \/ ~Resolves /\ LaunchFails(l)
    /\ UNCHANGED <<strangers, launchUses>> /\ UNCHANGED fileVars /\ UNCHANGED lockVars

-----------------------------------------------------------------------------
\* InstanceLock.acquire: the recorded process first, the lock then, and the own
\* process id last.
TurnedAway(l) ==
    /\ LaunchFails(l)
    /\ refusedAlone' = (refusedAlone \/ ~\E m \in Launcher \ {l} : launch[m].stage \in Serving)
    /\ UNCHANGED <<lockFile, locked, working, recovered, strangers, launchUses>>
    /\ UNCHANGED fileVars

Guard(l) ==
    /\ launch[l].stage = "guard"
    /\ IF lockFile \in Alive \ {launch[l].pid}
       THEN TurnedAway(l)
       ELSE /\ MoveTo(l, "claim")
            /\ UNCHANGED <<strangers, launchUses>> /\ UNCHANGED fileVars /\ UNCHANGED lockVars

LockTakenOver == lockFile \notin Alive
LockGranted == locked = "none"

Claim(l) ==
    /\ launch[l].stage = "claim"
    /\ \/ /\ LockGranted
          /\ locked' = l /\ lockFile' = "none" /\ MoveTo(l, "stamp")
          /\ UNCHANGED <<working, recovered, refusedAlone, strangers, launchUses>>
          /\ UNCHANGED fileVars
       \/ ~LockGranted /\ TurnedAway(l)

Stamp(l) ==
    /\ launch[l].stage = "stamp"
    /\ lockFile' = launch[l].pid /\ MoveTo(l, "recover")
    /\ UNCHANGED <<locked, working, recovered, refusedAlone, strangers, launchUses>>
    /\ UNCHANGED fileVars

\* Daemon.start: recovery fails every row that is RUNNING in the store.
Recover(l) ==
    /\ launch[l].stage = "recover"
    /\ recovered' = recovered \cup {m \in working : launch[m].stage \in AtWork}
    /\ working' = {} /\ MoveTo(l, "serve")
    /\ UNCHANGED <<lockFile, locked, refusedAlone, strangers, launchUses>> /\ UNCHANGED fileVars

\* Its workers take a task, and end it.
Work(l) ==
    /\ launch[l].stage = "serve"
    /\ \/ l \notin working /\ working' = working \cup {l}
       \/ l \in working /\ working' = working \ {l}
    /\ UNCHANGED <<launch, lockFile, locked, recovered, refusedAlone, strangers, launchUses>>
    /\ UNCHANGED fileVars

\* Daemon.stop after the server has ended: the workers first, the lock last.
StopBegins(l) ==
    /\ launch[l].stage = "serve" /\ MoveTo(l, "drain")
    /\ UNCHANGED <<strangers, launchUses>> /\ UNCHANGED fileVars /\ UNCHANGED lockVars

Drain(l) ==
    /\ launch[l].stage = "drain"
    /\ working' = working \ {l} /\ MoveTo(l, "release")
    /\ UNCHANGED <<lockFile, locked, recovered, refusedAlone, strangers, launchUses>>
    /\ UNCHANGED fileVars

Release(l) ==
    /\ launch[l].stage = "release"
    /\ locked' = "none" /\ LaunchFails(l)
    /\ UNCHANGED <<lockFile, working, recovered, refusedAlone, strangers, launchUses>>
    /\ UNCHANGED fileVars

-----------------------------------------------------------------------------
\* The operator writes another key into the configuration.
Edit(k) ==
    /\ config.form # "absent" /\ k # latest /\ launchUses.edits < MaxEdits
    /\ launchUses' = [launchUses EXCEPT !.edits = @ + 1]
    /\ config' = [form |-> "plain", key |-> k] /\ latest' = k
    /\ overtaken' = (overtaken \/ \E l \in Launcher :
                        launch[l].read # "none" \/ launch[l].stage = "create")
    /\ UNCHANGED <<venv, secret, launch, strangers>> /\ UNCHANGED lockVars

\* A kill of a launcher with its command, at any step: the system frees the process id and drops its lock.
Killed(l) ==
    /\ launch[l].stage # "idle" /\ launchUses.crashes < MaxCrashes
    /\ launchUses' = [launchUses EXCEPT !.crashes = @ + 1]
    /\ LaunchFails(l)
    /\ locked' = IF locked = l THEN "none" ELSE locked
    /\ UNCHANGED <<lockFile, working, recovered, refusedAlone, strangers>>
    /\ UNCHANGED fileVars

\* The machine gives a process id to another program.
Reuse(p) ==
    /\ p \notin Alive /\ launchUses.reuses < MaxReuses
    /\ launchUses' = [launchUses EXCEPT !.reuses = @ + 1]
    /\ strangers' = strangers \cup {p}
    /\ UNCHANGED launch /\ UNCHANGED fileVars /\ UNCHANGED lockVars

LaunchInit ==
    /\ venv = "none" /\ config = [form |-> "absent", key |-> "none"]
    /\ secret = "none" /\ latest = "none" /\ overtaken = FALSE
    /\ launch = [l \in Launcher |-> Idle]
    /\ lockFile = "none" /\ locked = "none" /\ working = {} /\ recovered = {}
    /\ refusedAlone = FALSE /\ strangers = {}
    /\ launchUses = [launches |-> 0, crashes |-> 0, reuses |-> 0, edits |-> 0]

LaunchNext ==
    \/ \E l \in Launcher :
         \/ \E skipInstall \in BOOLEAN : Begin(l, skipInstall)
         \/ AddPip(l) \/ Install(l) \/ LookAtInterpreter(l) \/ InitLooks(l) \/ InitWrites(l)
         \/ ReadConfig(l) \/ KeepSecret(l) \/ Rewrite(l) \/ DoctorEnds(l) \/ ServeStarts(l)
         \/ Guard(l) \/ Claim(l) \/ Stamp(l) \/ Recover(l) \/ Work(l)
         \/ StopBegins(l) \/ Drain(l) \/ Release(l) \/ Killed(l)
    \/ \E k \in SecretKey : Edit(k)
    \/ \E p \in Pid : Reuse(p)

LaunchSpec == LaunchInit /\ [][LaunchNext]_launchVars

-----------------------------------------------------------------------------
LaunchTypeOK ==
    /\ venv \in {"none", "bare", "pip", "installed"}
    /\ config \in [form : {"absent", "variable", "plain", "reference"}, key : SecretKey \cup {"none"}]
    /\ {secret, latest} \subseteq SecretKey \cup {"none"}
    /\ \A l \in Launcher :
         /\ launch[l].pid \in Pid \cup {"none"} /\ launch[l].read \in SecretKey \cup {"none"}
         /\ launch[l].stage \in Serving => launch[l].pid # "none"
    /\ lockFile \in Pid \cup {"none"} /\ locked \in Launcher \cup {"none"}
    /\ working \cup recovered \subseteq Launcher /\ strangers \subseteq Pid

\* Recovery never fails the rows of a daemon that is still at work: whatever is
\* killed, restarted or slow, two daemons are never past the lock at once
\* (single_instance.py:3-7).
RecoveryIsAlone ==
    /\ recovered = {}
    /\ Cardinality({l \in Launcher : launch[l].stage \in {"stamp", "recover", "serve", "drain"}})
         <= 1

\* Moving a backend key into the keyring loses no key, whoever is killed between
\* its steps and however often the file is loaded: unless the operator wrote the
\* file while a load was under way, the last key is in the file or the keyring.
KeysSurvive ==
    ~overtaken /\ latest # "none" =>
       \/ config = [form |-> "plain", key |-> latest]
       \/ config.form = "reference" /\ secret = latest

\* What the module's docstring says (single_instance.py:10-12): a restart is never
\* refused because of a daemon that is gone.
RestartIsNotBlocked == ~refusedAlone
=============================================================================
