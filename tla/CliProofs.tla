------------------------------ MODULE CliProofs ------------------------------
(***************************************************************************)
(* Proofs about Cli for any numbers of APIs, keys and commands at once.    *)
(***************************************************************************)
EXTENDS Cli, TLAPS

USE CliAssumption

-------------------------------------------------------------------------------
(* Pieces of the file *)

LEMMA ContentOK ==
  ASSUME NEW c \in Configs
  PROVE  /\ Size(c) \in Nat /\ Size(c) >= 1
         /\ Content(c) \in Seq(Configs) /\ Content(c) # <<>>
         /\ \A i \in DOMAIN Content(c) : Content(c)[i] = c
         /\ 1 \in DOMAIN Content(c) /\ Content(c)[1] = c
         /\ Overwrite(<<>>, Content(c)) = Content(c)
<1>1. Size(c) \in 1 .. 3
  BY DEF Size
<1>2. Content(c) \in Seq(Configs) /\ Len(Content(c)) = Size(c)
  BY <1>1 DEF Content
<1>3. Content(c) # <<>> /\ \A i \in DOMAIN Content(c) : Content(c)[i] = c
  BY <1>1 DEF Content
<1>4. 1 \in DOMAIN Content(c)
  BY <1>1 DEF Content
<1>5. Overwrite(<<>>, Content(c)) = Content(c)
  BY <1>2 DEF Overwrite
<1> QED
  BY <1>1, <1>2, <1>3, <1>4, <1>5

(* What overwriting leaves are pieces of the new and of the old content. *)
LEMMA OverwriteOK ==
  ASSUME NEW S, NEW old \in Seq(S), NEW new \in Seq(S)
  PROVE  /\ Overwrite(old, new) \in Seq(S)
         /\ \A i \in DOMAIN Overwrite(old, new) :
              \/ \E j \in DOMAIN new : Overwrite(old, new)[i] = new[j]
              \/ \E j \in DOMAIN old : Overwrite(old, new)[i] = old[j]
<1> DEFINE rest == SubSeq(old, Len(new) + 1, Len(old))
<1>1. /\ rest \in Seq(S)
      /\ \A i \in 1 .. Len(rest) : rest[i] = old[Len(new) + i] /\ Len(new) + i \in 1 .. Len(old)
  OBVIOUS
<1>2. /\ new \o rest \in Seq(S) /\ Len(new \o rest) = Len(new) + Len(rest)
      /\ \A i \in 1 .. Len(new) + Len(rest) :
           (new \o rest)[i] = IF i <= Len(new) THEN new[i] ELSE rest[i - Len(new)]
  BY <1>1
<1> HIDE DEF rest
<1>3. ASSUME NEW i \in 1 .. Len(new) + Len(rest)
      PROVE  \/ \E j \in DOMAIN new : (new \o rest)[i] = new[j]
             \/ \E j \in DOMAIN old : (new \o rest)[i] = old[j]
  <2>1. Len(new) \in Nat /\ Len(rest) \in Nat /\ DOMAIN new = 1 .. Len(new) /\ DOMAIN old = 1 .. Len(old)
    BY <1>1
  <2>2. CASE i <= Len(new)
    BY <1>2, <2>1, <2>2
  <2>3. CASE ~(i <= Len(new))
    <3>1. i - Len(new) \in 1 .. Len(rest)
      BY <2>1, <2>3
    <3>2. (new \o rest)[i] = rest[i - Len(new)]
      BY <1>2, <2>3
    <3>3. Len(new) + (i - Len(new)) \in DOMAIN old
      BY <1>1, <2>1, <3>1
    <3> QED
      BY <1>1, <3>1, <3>2, <3>3
  <2> QED
    BY <2>2, <2>3
<1>4. Overwrite(old, new) = new \o rest
  BY DEF Overwrite, rest
<1>5. DOMAIN (new \o rest) = 1 .. Len(new) + Len(rest)
  BY <1>1, <1>2
<1> QED
  BY <1>2, <1>3, <1>4, <1>5

-------------------------------------------------------------------------------
(* What a process holds, and every piece of the file, may be saved. *)
HeldSound ==
  /\ \A i \in DOMAIN file : Sound(file[i])
  /\ \A p \in Processes :
       ~processes[p].given \/ processes[p].pc \in {"open", "write"} => Sound(processes[p])

LoginHasKey == \A p \in Processes : At(p, "verify") => processes[p].token # None /\ processes[p].base # None

(* Undisturbed, there is at most one writer, and it writes to an empty file. *)
OneWriter ==
  ~disturbed =>
    /\ \A p \in Processes : \A q \in Processes : At(p, "write") /\ At(q, "write") => p = q
    /\ Writing => made /\ file = <<>>
    /\ ~Writing => IF made THEN file = Content(saved) ELSE saved = NoConfig

IInv == TypeOK /\ HeldSound /\ LoginHasKey /\ OneWriter

LEMMA InitOK == Init => IInv
<1> SUFFICES ASSUME Init PROVE IInv
  OBVIOUS
<1> USE DEF Init
<1>1. TypeOK
  <2>1. Idle \in Commands /\ NoConfig \in Configs
    BY DEF Idle, Commands, NoConfig, Configs
  <2>2. processes \in [Processes -> Commands]
    BY <2>1
  <2>3. file \in Seq(Configs)
    OBVIOUS
  <2>4. saved \in Configs /\ verified = {} /\ created = {} /\ keys = {}
    BY <2>1
  <2>5. made \in BOOLEAN /\ disturbed \in BOOLEAN
    OBVIOUS
  <2>6. ended \in 0 .. 2
    OBVIOUS
  <2> QED
    BY <2>2, <2>3, <2>4, <2>5, <2>6 DEF TypeOK
<1>2. HeldSound /\ LoginHasKey /\ OneWriter
  BY DEF HeldSound, LoginHasKey, OneWriter, Writing, At, Idle, Sound
<1> QED
  BY <1>1, <1>2 DEF IInv

LEMMA LoadedOK ==
  ASSUME IInv
  PROVE  /\ Loaded \in Configs
         /\ Loaded.base \in Bases \cup {None} /\ Loaded.token \in Keys \cup {None}
         /\ Sound(Loaded)
<1>1. CASE made /\ file # <<>>
  <2>1. 1 \in DOMAIN file /\ file[1] \in Configs
    BY <1>1 DEF IInv, TypeOK
  <2> QED
    BY <1>1, <2>1 DEF IInv, HeldSound, Loaded, Configs
<1>2. CASE ~(made /\ file # <<>>)
  BY <1>2 DEF Loaded, NoConfig, Configs, Sound
<1> QED
  BY <1>1, <1>2

(* A step that only gives p another command. *)
LEMMA CommandOK ==
  ASSUME IInv, NEW p \in Processes, NEW command \in Commands, Goto(p, command),
         NEW status \in 0 .. 2, ended' = status,
         UNCHANGED <<server, config, history>>,
         command.pc # "write", ~At(p, "write"),
         ~command.given \/ command.pc = "open" => Sound(command),
         command.pc = "verify" => command.token # None /\ command.base # None
  PROVE  IInv'
<1> USE DEF IInv, Goto, server, config, history
<1>1. \A q \in Processes : processes'[q] = IF q = p THEN command ELSE processes[q]
  BY DEF TypeOK
<1>2. TypeOK'
  BY DEF TypeOK
<1>3. HeldSound'
  BY <1>1 DEF HeldSound, Sound
<1>4. LoginHasKey'
  BY <1>1 DEF LoginHasKey, At
<1>5. OneWriter'
  BY <1>1 DEF OneWriter, Writing, At
<1> QED
  BY <1>2, <1>3, <1>4, <1>5

LEMMA StartOK ==
  ASSUME IInv, NEW p \in Processes, NEW base \in Bases \cup {None}, NEW token \in Keys \cup {None}
  PROVE  /\ token # None /\ Login(p, base, token) => IInv'
         /\ Logout(p) => IInv'
         /\ Lint(p, base, token) => IInv'
         /\ Whoami(p, base, token) => IInv'
<1> DEFINE b == ResolveAPIBase(base)
           t == ResolveToken(token)
<1>1. /\ b \in Bases /\ t \in Keys \cup {None}
      /\ ~Given(base, token) /\ t # None => <<b, t>> \in verified
  <2>1. Loaded.token # None => <<Loaded.base, Loaded.token>> \in verified /\ Loaded.base \in Bases
    BY LoadedOK DEF Sound, IInv, TypeOK
  <2> QED
    BY <2>1, LoadedOK DEF ResolveAPIBase, ResolveToken, Given
<1>2. b # None
  BY <1>1
<1>3. ended \in 0 .. 2 /\ Given(base, token) \in BOOLEAN
  BY DEF IInv, TypeOK, Given
<1> HIDE DEF b, t
<1>4. ASSUME NEW command \in Commands, Start(p, command),
             command.pc # "write",
             ~command.given \/ command.pc = "open" => Sound(command),
             command.pc = "verify" => command.token # None /\ command.base # None
      PROVE  IInv'
  BY <1>3, <1>4, CommandOK DEF Start, At
<1>5. ASSUME token # None, Login(p, base, token) PROVE IInv'
  <2>1. Start(p, Command("verify", b, token, TRUE))
    BY <1>5 DEF Login, b
  <2>2. Command("verify", b, token, TRUE) \in Commands
    BY <1>1 DEF Command, Commands
  <2> QED
    BY <1>2, <1>4, <1>5, <2>1, <2>2 DEF Command
<1>6. ASSUME Logout(p) PROVE IInv'
  <2>1. Command("open", Loaded.base, None, TRUE) \in Commands
    BY LoadedOK DEF Command, Commands
  <2> QED
    BY <1>4, <1>6, <2>1 DEF Logout, Command, Sound
<1>7. ASSUME NEW pc \in {"lint", "usage"}, Start(p, Command(pc, b, t, Given(base, token)))
      PROVE  IInv'
  <2>1. Command(pc, b, t, Given(base, token)) \in Commands
    BY <1>1, <1>3 DEF Command, Commands
  <2>2. ~Given(base, token) => Sound(Command(pc, b, t, Given(base, token)))
    BY <1>1 DEF Sound, Command
  <2> QED
    BY <1>4, <1>7, <2>1, <2>2 DEF Command
<1> QED
  BY <1>5, <1>6, <1>7 DEF Lint, Whoami, b, t

LEMMA VerifyOK ==
  ASSUME IInv, NEW p \in Processes, Verify(p)
  PROVE  IInv'
<1>1. Idle \in Commands /\ Sound(Idle)
  BY DEF Idle, Commands, Sound
<1>2. CASE Exit(p, 2) /\ UNCHANGED verified
  BY <1>1, <1>2, CommandOK DEF Verify, Exit, At, Idle, history
<1>3. CASE /\ Authorized(processes[p].base, processes[p].token)
           /\ verified' = verified \cup {<<processes[p].base, processes[p].token>>}
           /\ Goto(p, Command("open", processes[p].base, processes[p].token, TRUE))
           /\ UNCHANGED ended
  <2> USE DEF Verify, IInv, server, config
  <2> PICK b \in Bases, k \in Keys : b = processes[p].base /\ k = processes[p].token
    BY DEF TypeOK, LoginHasKey, Commands
  <2>1. \A q \in Processes :
          processes'[q] = IF q = p THEN Command("open", b, k, TRUE) ELSE processes[q]
    BY <1>3 DEF TypeOK, Goto
  <2>2. TypeOK'
    <3>1. Command("open", b, k, TRUE) \in Commands
      BY DEF Command, Commands
    <3>2. processes' \in [Processes -> Commands]
      BY <1>3, <3>1 DEF TypeOK, Goto
    <3>3. verified' \subseteq Bases \X Keys
      BY <1>3 DEF TypeOK
    <3> QED
      BY <1>3, <3>2, <3>3 DEF TypeOK
  <2>3. HeldSound'
    <3>1. verified \subseteq verified' /\ <<b, k>> \in verified'
      BY <1>3
    <3> QED
      BY <2>1, <3>1 DEF HeldSound, Sound, Command
  <2>4. LoginHasKey'
    BY <2>1 DEF LoginHasKey, At, Command
  <2>5. OneWriter'
    BY <2>1 DEF OneWriter, Writing, At, Command
  <2> QED
    BY <2>2, <2>3, <2>4, <2>5
<1> QED
  BY <1>2, <1>3 DEF Verify

LEMMA OpenOK ==
  ASSUME IInv, NEW p \in Processes, Open(p)
  PROVE  IInv'
<1> USE DEF Open, IInv, server
<1> PICK b \in Bases \cup {None}, k \in Keys \cup {None} :
      b = processes[p].base /\ k = processes[p].token
  BY DEF TypeOK, Commands
<1>1. \A q \in Processes :
        processes'[q] = IF q = p THEN Command("write", b, k, TRUE) ELSE processes[q]
  BY DEF TypeOK, Goto
<1>2. TypeOK'
  <2>1. Command("write", b, k, TRUE) \in Commands
    BY DEF Command, Commands
  <2>2. processes' \in [Processes -> Commands]
    BY <2>1 DEF TypeOK, Goto
  <2>3. disturbed' \in BOOLEAN
    BY DEF TypeOK
  <2> QED
    BY <2>2, <2>3 DEF TypeOK
<1>3. HeldSound'
  <2>1. Sound(processes[p])
    BY DEF HeldSound, At
  <2> QED
    BY <1>1, <2>1 DEF HeldSound, Sound, Command
<1>4. LoginHasKey'
  BY <1>1 DEF LoginHasKey, At, Command
<1>5. OneWriter'
  <2> SUFFICES ASSUME ~disturbed'
               PROVE  OneWriter'
    BY DEF OneWriter
  <2>1. \A q \in Processes : processes[q].pc # "write"
    BY DEF At
  <2>2. \A q \in Processes : processes'[q].pc = "write" <=> q = p
    BY <1>1, <2>1 DEF Command
  <2>3. Writing'
    BY <2>2 DEF Writing, At
  <2> QED
    BY <2>2, <2>3 DEF OneWriter, At
<1> QED
  BY <1>2, <1>3, <1>4, <1>5

LEMMA WriteOK ==
  ASSUME IInv, NEW p \in Processes, Write(p)
  PROVE  IInv'
<1> USE DEF IInv, server
<1> PICK c \in Configs : c = [base |-> processes[p].base, token |-> processes[p].token]
  BY DEF TypeOK, Commands, Configs
<1>1. /\ processes[p].pc = "write"
      /\ file' = Overwrite(file, Content(c)) /\ saved' = c
      /\ \A q \in Processes : processes'[q] = IF q = p THEN Idle ELSE processes[q]
      /\ UNCHANGED <<created, keys, made, verified, disturbed>> /\ ended' = 0
      /\ processes' = [processes EXCEPT ![p] = Idle]
  BY DEF Write, Exit, Goto, At, TypeOK
<1>2. TypeOK'
  <2>1. file' \in Seq(Configs)
    BY <1>1, ContentOK, OverwriteOK DEF TypeOK
  <2>2. processes' \in [Processes -> Commands]
    BY <1>1 DEF TypeOK, Idle, Commands
  <2> QED
    BY <1>1, <2>1, <2>2 DEF TypeOK
<1>3. HeldSound'
  <2>1. Sound(c)
    BY <1>1 DEF HeldSound, Sound
  <2>2. ASSUME NEW i \in DOMAIN file' PROVE Sound(file'[i])
    <3>1. Content(c) \in Seq(Configs) /\ file \in Seq(Configs)
      BY ContentOK DEF TypeOK
    <3>2. \/ \E j \in DOMAIN Content(c) : file'[i] = Content(c)[j]
          \/ \E j \in DOMAIN file : file'[i] = file[j]
      BY <1>1, <3>1, OverwriteOK
    <3> QED
      BY <2>1, <3>2, ContentOK DEF HeldSound
  <2> QED
    BY <1>1, <2>2 DEF HeldSound, Sound, Idle
<1>4. LoginHasKey'
  BY <1>1 DEF LoginHasKey, At, Idle
<1>5. OneWriter'
  <2> SUFFICES ASSUME ~disturbed
               PROVE  OneWriter'
    BY <1>1 DEF OneWriter
  <2>1. made /\ file = <<>>
    BY <1>1 DEF OneWriter, Writing, At
  <2>2. file' = Content(saved')
    BY <1>1, <2>1, ContentOK
  <2>3. \A q \in Processes : processes'[q].pc # "write"
    BY <1>1 DEF OneWriter, At, Idle
  <2> QED
    BY <1>1, <2>1, <2>2, <2>3 DEF OneWriter, Writing, At
<1> QED
  BY <1>2, <1>3, <1>4, <1>5

LEMMA KillOK ==
  ASSUME IInv, NEW p \in Processes, Kill(p)
  PROVE  IInv'
<1> USE DEF IInv, server, config, Kill, Exit, Goto
<1>1. \A q \in Processes : processes'[q] = IF q = p THEN Idle ELSE processes[q]
  BY DEF TypeOK
<1>2. TypeOK'
  <2>1. Idle \in Commands
    BY DEF Idle, Commands
  <2>2. disturbed' \in BOOLEAN
    BY DEF TypeOK
  <2> QED
    BY <2>1, <2>2 DEF TypeOK
<1>3. HeldSound' /\ LoginHasKey'
  BY <1>1 DEF HeldSound, LoginHasKey, At, Idle, Sound
<1>4. OneWriter'
  <2> SUFFICES ASSUME ~disturbed'
               PROVE  OneWriter'
    BY DEF OneWriter
  <2>1. ~disturbed /\ processes[p].pc # "write"
    BY DEF At
  <2>2. \A q \in Processes : processes'[q].pc = "write" <=> processes[q].pc = "write"
    BY <1>1, <2>1 DEF Idle
  <2>3. Writing' <=> Writing
    BY <2>2 DEF Writing, At
  <2> QED
    BY <2>1, <2>2, <2>3 DEF OneWriter, At
<1> QED
  BY <1>2, <1>3, <1>4

LEMMA ServerOK ==
  ASSUME IInv, NEW k \in Keys, CreateAPIKey(k) \/ DeleteAPIKey(k)
  PROVE  IInv'
<1> USE DEF IInv, config, history, CreateAPIKey, DeleteAPIKey
<1>1. TypeOK'
  BY DEF TypeOK
<1>2. HeldSound' /\ LoginHasKey' /\ OneWriter'
  BY DEF HeldSound, LoginHasKey, OneWriter, Writing, At, Sound
<1> QED
  BY <1>1, <1>2

LEMMA StepOK == IInv /\ [Next]_vars => IInv'
<1> SUFFICES ASSUME IInv, [Next]_vars PROVE IInv'
  OBVIOUS
<1>1. CASE UNCHANGED vars
  BY <1>1 DEF IInv, TypeOK, HeldSound, LoginHasKey, OneWriter, Writing, At, Sound,
              vars, server, config, history
<1>2. ASSUME NEW k \in Keys, CreateAPIKey(k) \/ DeleteAPIKey(k) PROVE IInv'
  BY <1>2, ServerOK
<1>3. ASSUME NEW p \in Processes, Run(p) PROVE IInv'
  <2>0. Idle \in Commands /\ Sound(Idle)
    BY DEF Idle, Commands, Sound
  <2>1. ASSUME NEW status \in 0 .. 2, Exit(p, status), UNCHANGED <<server, config, history>>, ~At(p, "write")
        PROVE  IInv'
    BY <2>0, <2>1, CommandOK DEF Exit, Idle
  <2>2. CASE FailToLoad(p)
    BY <2>1, <2>2 DEF FailToLoad, At
  <2>3. CASE LintAnswered(p)
    BY <2>1, <2>3 DEF LintAnswered, At
  <2>4. CASE UsageAnswered(p)
    BY <2>1, <2>4 DEF UsageAnswered, At
  <2>5. CASE \E base \in Bases \cup {None}, token \in Keys : Login(p, base, token)
    BY <2>5, StartOK
  <2>6. CASE Logout(p)
    BY <2>6, StartOK
  <2>7. CASE \E base \in Bases \cup {None}, token \in Keys \cup {None} :
               Lint(p, base, token) \/ Whoami(p, base, token)
    BY <2>7, StartOK
  <2> QED
    BY <1>3, <2>2, <2>3, <2>4, <2>5, <2>6, <2>7, VerifyOK, OpenOK, WriteOK, KillOK DEF Run
<1> QED
  BY <1>1, <1>2, <1>3 DEF Next

-------------------------------------------------------------------------------
(* What holds of the file and of the commands in flight, in every reachable *)
(* state.                                                                   *)
THEOREM Inductive == Spec => []IInv
BY InitOK, StepOK, PTL DEF Spec

(* Every variable stays in its range. *)
THEOREM TypeCorrect == Spec => []TypeOK
<1>1. IInv => TypeOK
  BY DEF IInv
<1> QED
  BY <1>1, Inductive, PTL

(* A key is never saved, nor sent because it was saved, with another base than *)
(* the one it was verified at.                                                 *)
THEOREM PairSafe == Spec => []SavedPairVerified
<1>1. IInv => SavedPairVerified
  BY LoadedOK DEF IInv, HeldSound, SavedPairVerified
<1> QED
  BY <1>1, Inductive, PTL

(* Without a cut-off or overlapping save, the file is what was saved last. *)
THEOREM SaveSafe == Spec => []LastSaveKept
<1>1. IInv => LastSaveKept
  BY DEF IInv, OneWriter, LastSaveKept
<1> QED
  BY <1>1, Inductive, PTL

(* No command repairs an unreadable file. *)
THEOREM BrokenSafe == Spec => BrokenForGood
<1>1. ASSUME IInv, [Next]_vars PROVE StaysBroken
  <2> SUFFICES ASSUME Broken
               PROVE  Broken' /\ \A p \in Processes : At(p, "idle") => processes'[p].pc = "idle"
    BY DEF StaysBroken
  <2>1. ~Readable /\ \A p \in Processes : processes[p].pc \notin {"verify", "open", "write"}
    <3>1. made /\ (\A c \in Configs : file # Content(c))
      BY DEF Broken
    <3>2. file # <<>> => file[1] \in Configs
      BY <1>1 DEF IInv, TypeOK
    <3> QED
      BY <3>1, <3>2 DEF Broken, Readable
  <2>2. SUFFICES /\ UNCHANGED config
                 /\ \A p \in Processes :
                      processes'[p] = processes[p] \/ processes'[p] = Idle
    BY <2>1 DEF Broken, config, Idle, At
  <2>3. CASE UNCHANGED vars
    BY <2>3 DEF vars
  <2>4. ASSUME NEW k \in Keys, CreateAPIKey(k) \/ DeleteAPIKey(k)
        PROVE  UNCHANGED config /\ UNCHANGED processes
    BY <2>4 DEF CreateAPIKey, DeleteAPIKey
  <2>5. ASSUME NEW p \in Processes, Run(p)
        PROVE  UNCHANGED config /\ processes' = [processes EXCEPT ![p] = Idle]
    BY <2>1, <2>5 DEF Run, FailToLoad, Login, Logout, Lint, Whoami, Start, Verify, Open, Write,
                      LintAnswered, UsageAnswered, Kill, Exit, Goto, At
  <2>6. processes \in [Processes -> Commands]
    BY <1>1 DEF IInv, TypeOK
  <2> QED
    BY <1>1, <2>3, <2>4, <2>5, <2>6 DEF Next
<1> QED
  BY <1>1, Inductive, PTL DEF Spec, BrokenForGood
=============================================================================
