--------------------------------- MODULE Cli ---------------------------------
(***************************************************************************)
(* The commands of mflint on one machine and the configuration file they   *)
(* share: login verifies a key at an API and saves the pair, logout drops  *)
(* the key, lint and whoami send what is saved unless flags or environment *)
(* say otherwise.  The file is rewritten in place, in two system calls.    *)
(***************************************************************************)
EXTENDS Naturals, Sequences

CONSTANTS
  Bases,        \* mflint APIs
  defaultBase,  \* the one used when nothing is said
  Keys,         \* API keys, made or yet to be made
  Home,         \* [Keys -> Bases]: the API that makes each
  Processes,    \* commands that may run at once
  None          \* no value

ASSUME CliAssumption ==
  /\ defaultBase \in Bases
  /\ Home \in [Keys -> Bases]
  /\ None \notin Bases \cup Keys

VARIABLES
  created,    \* the keys made so far
  keys,       \* tables api_keys: the ones that are still there
  made,       \* does config.json exist
  file,       \* its content, as a sequence of pieces of configurations
  processes,  \* the command each process runs, with what it has resolved
  verified,   \* history: <<base, key>> that passed a login's check
  saved,      \* history: the configuration saved last
  disturbed,  \* history: was a save cut short, or did two overlap
  ended       \* history: the exit status of the command that ended last

server == <<created, keys>>
config == <<made, file>>
history == <<verified, saved, disturbed>>
vars == <<server, config, processes, history, ended>>

\* apiBase and token are omitted from the JSON when empty.
Configs == [base : Bases \cup {None}, token : Keys \cup {None}]
NoConfig == [base |-> None, token |-> None]

\* saveConfig's JSON: the longer, the more there is to say.
Size(c) == 1 + (IF c.base = None THEN 0 ELSE 1) + (IF c.token = None THEN 0 ELSE 1)
Content(c) == [i \in 1 .. Size(c) |-> c]

\* Writing from the start of a file that another process has written meanwhile.
Overwrite(old, new) == new \o SubSeq(old, Len(new) + 1, Len(old))

Idle == [pc |-> "idle", base |-> None, token |-> None, given |-> FALSE]
Commands ==
  [pc : {"idle", "verify", "open", "write", "lint", "usage"},
   base : Bases \cup {None}, token : Keys \cup {None}, given : BOOLEAN]

TypeOK ==
  /\ keys \subseteq created /\ created \subseteq Keys
  /\ made \in BOOLEAN
  /\ file \in Seq(Configs)
  /\ processes \in [Processes -> Commands]
  /\ verified \subseteq Bases \X Keys
  /\ saved \in Configs
  /\ disturbed \in BOOLEAN
  /\ ended \in 0 .. 2

Init ==
  /\ created = {} /\ keys = {}
  /\ made = FALSE /\ file = <<>>
  /\ processes = [p \in Processes |-> Idle]
  /\ verified = {}
  /\ saved = NoConfig
  /\ disturbed = FALSE
  /\ ended = 0

-----------------------------------------------------------------------------
(* The server *)

\* POST /v1/api-keys: 24 random bytes, of which only the hash is stored.
CreateAPIKey(k) ==
  /\ k \notin created
  /\ created' = created \cup {k} /\ keys' = keys \cup {k}
  /\ UNCHANGED <<config, processes, history, ended>>

\* DELETE /v1/api-keys/{id}
DeleteAPIKey(k) ==
  /\ k \in keys
  /\ keys' = keys \ {k}
  /\ UNCHANGED <<created, config, processes, history, ended>>

\* requireAuth at the API of a base.
Authorized(base, k) == k \in keys /\ Home[k] = base

-----------------------------------------------------------------------------
(* The commands *)

At(p, pc) == processes[p].pc = pc
Command(pc, base, token, given) == [pc |-> pc, base |-> base, token |-> token, given |-> given]
Goto(p, command) == processes' = [processes EXCEPT ![p] = command]
Exit(p, status) == Goto(p, Idle) /\ ended' = status

\* A bug: an empty file is taken for a missing one.
ReadableOrEmpty == made /\ file # <<>> => file = Content(file[1])

\* loadConfig: no file is no configuration; what is not JSON is an error.
Readable == made => file # <<>> /\ file = Content(file[1])
Loaded == IF made /\ file # <<>> THEN file[1] ELSE NoConfig

\* Every command reads the file first, and gives up if it cannot.
FailToLoad(p) ==
  /\ At(p, "idle")
  /\ ~Readable
  /\ Exit(p, 2)
  /\ UNCHANGED <<server, config, history>>

\* --api-base or MFLINT_API_BASE, the saved base, the default.
ResolveAPIBase(base) ==
  IF base # None THEN base ELSE IF Loaded.base # None THEN Loaded.base ELSE defaultBase

\* --token or MFLINT_API_KEY, the saved key, none.
ResolveToken(token) == IF token # None THEN token ELSE Loaded.token

Start(p, command) ==
  /\ At(p, "idle")
  /\ Readable
  /\ Goto(p, command)
  /\ UNCHANGED <<server, config, history, ended>>

\* The key is pasted or given by the flag; the base may be given.
Login(p, base, token) == Start(p, Command("verify", ResolveAPIBase(base), token, TRUE))
Logout(p) == Start(p, Command("open", Loaded.base, None, TRUE))

Given(base, token) == base # None \/ token # None

Lint(p, base, token) ==
  Start(p, Command("lint", ResolveAPIBase(base), ResolveToken(token), Given(base, token)))

Whoami(p, base, token) ==
  Start(p, Command("usage", ResolveAPIBase(base), ResolveToken(token), Given(base, token)))

\* A bug: a key is saved whatever /v1/usage says.
VerifyNothing(p) ==
  /\ At(p, "verify")
  /\ Goto(p, [processes[p] EXCEPT !.pc = "open"])
  /\ UNCHANGED <<server, config, history, ended>>

\* fetchUsage: the API answers 200 only to a key of its own; any other answer, or
\* none, ends the login.
Verify(p) ==
  LET c == processes[p]
  IN /\ At(p, "verify")
     /\ \/ /\ Authorized(c.base, c.token)
           /\ verified' = verified \cup {<<c.base, c.token>>}
           /\ Goto(p, Command("open", c.base, c.token, TRUE))
           /\ UNCHANGED ended
        \/ /\ Exit(p, 2)
           /\ UNCHANGED verified
     /\ UNCHANGED <<server, config, saved, disturbed>>

\* A bug: the file is opened without O_TRUNC.
OpenKeeping(p) ==
  /\ At(p, "open")
  /\ made' = TRUE /\ UNCHANGED file
  /\ disturbed' = (disturbed \/ \E q \in Processes : At(q, "write"))
  /\ Goto(p, Command("write", processes[p].base, processes[p].token, TRUE))
  /\ UNCHANGED <<server, verified, saved, ended>>

\* saveConfig: os.WriteFile opens the file and truncates it...
Open(p) ==
  /\ At(p, "open")
  /\ made' = TRUE /\ file' = <<>>
  /\ disturbed' = (disturbed \/ \E q \in Processes : At(q, "write"))
  /\ Goto(p, Command("write", processes[p].base, processes[p].token, TRUE))
  /\ UNCHANGED <<server, verified, saved, ended>>

\* ...and writes from its start.
Write(p) ==
  LET c == [base |-> processes[p].base, token |-> processes[p].token]
  IN /\ At(p, "write")
     /\ file' = Overwrite(file, Content(c))
     /\ saved' = c
     /\ Exit(p, 0)
     /\ UNCHANGED <<server, made, verified, disturbed>>

\* A bug: the status is the number of critical violations.
LintAnsweredCounting(p) ==
  /\ At(p, "lint")
  /\ \E status \in 0 .. 3 : Exit(p, status)
  /\ UNCHANGED <<server, config, history>>

\* lintViaAPI: a key the API does not know is treated like none, so the answer is a
\* report either way; a refusal, a limit reached or no answer ends in status 2.
LintAnswered(p) ==
  /\ At(p, "lint")
  /\ \E status \in 0 .. 2 : Exit(p, status)
  /\ UNCHANGED <<server, config, history>>

\* whoami asks only if there is a key.
UsageAnswered(p) ==
  LET c == processes[p]
  IN /\ At(p, "usage")
     /\ \/ (c.token = None \/ Authorized(c.base, c.token)) /\ Exit(p, 0)
        \/ c.token # None /\ Exit(p, 2)
     /\ UNCHANGED <<server, config, history>>

\* The command is killed, or its write fails.
Kill(p) ==
  /\ ~At(p, "idle")
  /\ Exit(p, 2)
  /\ disturbed' = (disturbed \/ At(p, "write"))
  /\ UNCHANGED <<server, config, verified, saved>>

Run(p) ==
  \/ FailToLoad(p)
  \/ \E base \in Bases \cup {None}, token \in Keys : Login(p, base, token)
  \/ Logout(p)
  \/ \E base \in Bases \cup {None}, token \in Keys \cup {None} :
       Lint(p, base, token) \/ Whoami(p, base, token)
  \/ Verify(p)
  \/ Open(p)
  \/ Write(p)
  \/ LintAnswered(p)
  \/ UsageAnswered(p)
  \/ Kill(p)

Next ==
  \/ \E k \in Keys : CreateAPIKey(k) \/ DeleteAPIKey(k)
  \/ \E p \in Processes : Run(p)

Spec == Init /\ [][Next]_vars

-----------------------------------------------------------------------------
(* Properties *)

Sound(c) == c.token # None => <<c.base, c.token>> \in verified

\* A key that is saved, or sent because it was saved, goes with the base it was
\* verified at, however logins at different APIs, logouts, overlapping saves and
\* commands killed halfway mix (auth.go:46-53, main.go:62-83).
SavedPairVerified ==
  /\ Readable => Sound(Loaded)
  /\ \A p \in Processes : ~processes[p].given => Sound(processes[p])

Writing == \E p \in Processes : At(p, "write")

\* Unless a save is cut short or two of them overlap, the file is exactly what was
\* saved last, with nothing left of a longer configuration (config.go:57).
LastSaveKept ==
  ~disturbed /\ ~Writing =>
    IF made THEN file = Content(saved) ELSE saved = NoConfig

\* The file is no configuration, and no command past loading can still save one.
Broken ==
  /\ made /\ \A c \in Configs : file # Content(c)
  /\ \A p \in Processes : processes[p].pc \notin {"verify", "open", "write"}

\* A configuration that was left unreadable stays so: every command ends with status
\* 2 on it, login and logout included, whatever the flags say (config.go:35-38).
StaysBroken ==
  Broken => Broken' /\ \A p \in Processes : At(p, "idle") => processes'[p].pc = "idle"
BrokenForGood == [][StaysBroken]_vars
==============================================================================
