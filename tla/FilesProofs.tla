------------------------------- MODULE FilesProofs -------------------------------
(***************************************************************************)
(* Proofs about the two protocols around files that others may touch.       *)
(*                                                                          *)
(* LedgerFiles, for any number of programs, directories and files: the      *)
(* directory lock together with the look at the opened file is enough,      *)
(* whatever becomes of the lock file that the operator may remove.          *)
(*                                                                          *)
(* ApiCredentials, for any accounts, any number of auth commands side by    *)
(* side and edits at any time: a command that compares the account before   *)
(* it asks the exchange, and not again, leaves a key that does not fit only *)
(* if the account in the file was changed in between.                       *)
(***************************************************************************)
EXTENDS LedgerFiles, ApiCredentials, TLAPS

-----------------------------------------------------------------------------
(* LedgerFiles                                                              *)

OpenPhases == {"Stopped", "Derived", "Parent", "LockOpened", "Locked", "LedgerOpened", "Idle"}

Locked(p) == phase[p] \in {"Parent", "LockOpened", "Locked", "LedgerOpened", "Idle"}

\* A program that has begun to open has its directory locked; a ledger that has a name has one
\* in the directory it belongs to; who has it open belongs there, too.
OpenInv ==
  /\ dir \in [Processes -> Dirs]
  /\ ledger \in [Dirs -> Files \cup {None, Symlink}]
  /\ parentLock \in [Dirs -> Processes \cup {None}]
  /\ phase \in [Processes -> OpenPhases]
  /\ file \in [Processes -> Files \cup {None}]
  /\ home \in [Files -> Dirs \cup {None}]
  /\ \A p \in Processes : Locked(p) => parentLock[dir[p]] = p
  /\ \A p \in Processes : phase[p] \in {"LedgerOpened", "Idle"} => file[p] \in Files
  /\ \A d \in Dirs : ledger[d] \in Files =>
       home[ledger[d]] \in Dirs /\ ledger[home[ledger[d]]] = ledger[d]
  /\ OwnLedgerOnly

LEMMA OpenStarts == NamesDiffer /\ Init => OpenInv
  BY DEF NamesDiffer, Init, OpenInv, OpenPhases, Locked, OwnLedgerOnly

\* Drop, an error or a crash.
LEMMA LeaveKept ==
  ASSUME NamesDiffer, OpenInv, NEW p \in Processes, Leave(p), UNCHANGED <<dir, ledger, home>>
  PROVE  OpenInv'
<1> USE DEF OpenPhases
<1>1. /\ phase' = [phase EXCEPT ![p] = "Stopped"] /\ file' = [file EXCEPT ![p] = None]
      /\ parentLock' = [d \in Dirs |-> IF parentLock[d] = p THEN None ELSE parentLock[d]]
  BY DEF Leave, Go
<1>2. \A q \in Processes : phase'[q] = (IF q = p THEN "Stopped" ELSE phase[q])
                           /\ file'[q] = (IF q = p THEN None ELSE file[q])
  BY <1>1 DEF OpenInv
<1>3. parentLock' \in [Dirs -> Processes \cup {None}]
  BY <1>1 DEF OpenInv
<1>4. phase' \in [Processes -> OpenPhases]
      /\ file' \in [Processes -> Files \cup {None}]
  BY <1>1 DEF OpenInv
<1>5. \A q \in Processes : Locked(q)' => parentLock'[dir'[q]] = q
  BY <1>1, <1>2 DEF OpenInv, Locked
<1> QED BY <1>2, <1>3, <1>4, <1>5 DEF OpenInv, OwnLedgerOnly

\* One step on in an open that leaves the ledgers and the directory locks as they are.
LEMMA GoKept ==
  ASSUME NamesDiffer, OpenInv, NEW p \in Processes,
         NEW to \in {"Derived", "LockOpened", "Locked"}, Go(p, to),
         to # "Derived" => Locked(p),
         UNCHANGED <<dir, ledger, home, parentLock, file>>
  PROVE  OpenInv'
<1> USE DEF OpenPhases
<1>1. /\ phase' = [phase EXCEPT ![p] = to]
      /\ \A q \in Processes : phase'[q] = IF q = p THEN to ELSE phase[q]
  BY DEF Go, OpenInv
<1> QED BY <1>1 DEF OpenInv, Locked, OwnLedgerOnly

LEMMA OpenStep == NamesDiffer /\ OpenInv /\ [Next]_vars => OpenInv'
<1> SUFFICES ASSUME NamesDiffer, OpenInv, [Next]_vars
             PROVE  OpenInv'
  OBVIOUS
<1> USE DEF OpenPhases, nameVars, openVars
<1>1. ASSUME NEW p \in Processes, Close(p)
      PROVE  OpenInv'
  BY <1>1, LeaveKept DEF Close
<1>2. ASSUME NEW p \in Processes, Derive(p)
      PROVE  OpenInv'
  BY <1>2, GoKept DEF Derive
<1>3. ASSUME NEW p \in Processes, LockParent(p)
      PROVE  OpenInv'
  <2>1. CASE parentLock[dir[p]] = None
    <3>1. /\ parentLock' = [parentLock EXCEPT ![dir[p]] = p]
          /\ phase' = [phase EXCEPT ![p] = "Parent"] /\ UNCHANGED <<dir, ledger, home, file>>
      BY <1>3, <2>1 DEF LockParent, Go
    <3>2. \A q \in Processes : phase'[q] = IF q = p THEN "Parent" ELSE phase[q]
      BY <3>1 DEF OpenInv
    <3>3. \A q \in Processes \ {p} : Locked(q) => dir[q] # dir[p]
      BY <2>1 DEF OpenInv, NamesDiffer
    <3> QED BY <3>1, <3>2, <3>3 DEF OpenInv, Locked, OwnLedgerOnly
  <2>2. CASE parentLock[dir[p]] # None
    BY <1>3, <2>2, LeaveKept DEF LockParent
  <2> QED BY <2>1, <2>2
<1>4. ASSUME NEW p \in Processes, OpenLock(p)
      PROVE  OpenInv'
  BY <1>4, GoKept, LeaveKept DEF OpenLock, Locked
<1>5. ASSUME NEW p \in Processes, TakeLock(p)
      PROVE  OpenInv'
  BY <1>5, GoKept, LeaveKept DEF TakeLock, Locked
<1>6. ASSUME NEW p \in Processes, OpenLedger(p)
      PROVE  OpenInv'
  <2>1. CASE Leave(p) /\ UNCHANGED <<ledger, home>>
    BY <1>6, <2>1, LeaveKept DEF OpenLedger
  <2>2. ASSUME NEW f \in Files, Opened(ledger[dir[p]], f),
               file' = [file EXCEPT ![p] = f], ledger' = [ledger EXCEPT ![dir[p]] = f],
               home' = IF ledger[dir[p]] = None THEN [home EXCEPT ![f] = dir[p]] ELSE home,
               Go(p, "LedgerOpened"), UNCHANGED <<dir, parentLock>>
        PROVE  OpenInv'
    <3>1. /\ phase' = [phase EXCEPT ![p] = "LedgerOpened"] /\ phase[p] = "Locked"
          /\ \A q \in Processes : phase'[q] = IF q = p THEN "LedgerOpened" ELSE phase[q]
          /\ \A q \in Processes : file'[q] = IF q = p THEN f ELSE file[q]
      BY <1>6, <2>2 DEF Go, OpenLedger, OpenInv
    <3>2. CASE ledger[dir[p]] = None
      <4>1. /\ \A d \in Dirs : ledger[d] # f
            /\ \A q \in Processes : file[q] # f
        BY <2>2, <3>2 DEF Opened, Unused, Linked
      <4>2. /\ \A d \in Dirs : ledger'[d] = IF d = dir[p] THEN f ELSE ledger[d]
            /\ \A g \in Files : home'[g] = IF g = f THEN dir[p] ELSE home[g]
            /\ dir[p] \in Dirs
        BY <2>2, <3>2 DEF OpenInv
      <4>3. \A d \in Dirs : ledger'[d] \in Files =>
              home'[ledger'[d]] \in Dirs /\ ledger'[home'[ledger'[d]]] = ledger'[d]
        BY <3>2, <4>1, <4>2 DEF OpenInv, NamesDiffer
      <4>4. /\ ledger' \in [Dirs -> Files \cup {None, Symlink}]
            /\ home' \in [Files -> Dirs \cup {None}]
            /\ file' \in [Processes -> Files \cup {None}]
            /\ phase' \in [Processes -> OpenPhases]
        BY <2>2, <3>1, <3>2, <4>2 DEF OpenInv
      <4>5. \A q \in Processes : Locked(q)' => parentLock'[dir'[q]] = q
        BY <2>2, <3>1 DEF OpenInv, Locked
      <4>6. OwnLedgerOnly'
        BY <2>2, <3>1, <4>1, <4>2 DEF OpenInv, OwnLedgerOnly
      <4>7. \A q \in Processes : phase'[q] \in {"LedgerOpened", "Idle"} => file'[q] \in Files
        BY <3>1 DEF OpenInv
      <4> QED BY <2>2, <4>3, <4>4, <4>5, <4>6, <4>7 DEF OpenInv
    <3>3. CASE ledger[dir[p]] # None
      <4>1. ledger' = ledger /\ home' = home
        BY <2>2, <3>3 DEF Opened, OpenInv
      <4> QED BY <2>2, <3>1, <4>1 DEF OpenInv, Locked, OwnLedgerOnly
    <3> QED BY <3>2, <3>3
  <2> QED BY <1>6, <2>1, <2>2 DEF OpenLedger
<1>7. ASSUME NEW p \in Processes, ValidateLedger(p)
      PROVE  OpenInv'
  <2>1. CASE Sound(ledger[dir[p]], file[p])
    <3>1. /\ phase[p] = "LedgerOpened" /\ phase' = [phase EXCEPT ![p] = "Idle"]
          /\ UNCHANGED <<dir, ledger, home, parentLock, file>>
      BY <1>7, <2>1 DEF ValidateLedger, Go
    <3>2. file[p] \in Files /\ ledger[dir[p]] = file[p] /\ dir[p] \in Dirs
      BY <2>1, <3>1 DEF Sound, OpenInv
    <3>3. \A d, e \in Linked(file[p]) : d = e
      BY <2>1, <3>2 DEF Sound, Plain
    <3>4. home[file[p]] = dir[p]
      BY <3>2, <3>3 DEF Linked, OpenInv
    <3>5. \A q \in Processes : phase'[q] = IF q = p THEN "Idle" ELSE phase[q]
      BY <3>1 DEF OpenInv
    <3> QED BY <3>1, <3>2, <3>4, <3>5 DEF OpenInv, Locked, OwnLedgerOnly
  <2>2. CASE ~ Sound(ledger[dir[p]], file[p])
    BY <1>7, <2>2, LeaveKept DEF ValidateLedger
  <2> QED BY <2>1, <2>2
<1>8. ASSUME NEW d \in Dirs, RemoveLock(d) \/ LinkLock(d)
      PROVE  OpenInv'
  BY <1>8 DEF RemoveLock, LinkLock, OpenInv, Locked, OwnLedgerOnly
<1>9. ASSUME NEW d \in Dirs, RemoveLedger(d)
      PROVE  OpenInv'
  <2>1. /\ ledger' = [ledger EXCEPT ![d] = None] /\ UNCHANGED <<dir, parentLock, phase, file>>
        /\ \A e \in Dirs : ledger'[e] = IF e = d THEN None ELSE ledger[e]
    BY <1>9 DEF RemoveLedger, OpenInv
  <2>2. CASE ledger[d] \in Files /\ home[ledger[d]] = d
    <3> DEFINE f == ledger[d]
    <3>1. PICK e \in IF Elsewhere(d) = {} THEN {None} ELSE Elsewhere(d) : home' = [home EXCEPT ![f] = e]
      BY <1>9, <2>2 DEF RemoveLedger
    <3>2. \A g \in Files : home'[g] = IF g = f THEN e ELSE home[g]
      BY <2>2, <3>1 DEF OpenInv
    <3>3. home' \in [Files -> Dirs \cup {None}]
      BY <2>2, <3>1 DEF OpenInv, Elsewhere
    <3>4. \A b \in Dirs : ledger'[b] \in Files =>
            home'[ledger'[b]] \in Dirs /\ ledger'[home'[ledger'[b]]] = ledger'[b]
      <4> SUFFICES ASSUME NEW b \in Dirs, ledger'[b] \in Files
                   PROVE  home'[ledger'[b]] \in Dirs /\ ledger'[home'[ledger'[b]]] = ledger'[b]
        OBVIOUS
      <4>1. b # d /\ ledger'[b] = ledger[b]
        BY <2>1 DEF NamesDiffer
      <4>2. CASE ledger[b] = f
        <5>1. b \in Elsewhere(d) /\ e \in Elsewhere(d)
          BY <3>1, <4>1, <4>2 DEF Elsewhere
        <5> QED BY <2>1, <2>2, <3>2, <4>1, <4>2, <5>1 DEF Elsewhere
      <4>3. CASE ledger[b] # f
        BY <2>1, <3>2, <4>1, <4>3 DEF OpenInv
      <4> QED BY <4>2, <4>3
    <3>5. ~ InUse(f)
      BY <1>9, <2>2 DEF RemoveLedger
    <3>6. OwnLedgerOnly'
      BY <2>1, <3>2, <3>5 DEF OpenInv, OwnLedgerOnly, InUse
    <3> QED BY <2>1, <3>3, <3>4, <3>6 DEF OpenInv, Locked
  <2>3. CASE ~ (ledger[d] \in Files /\ home[ledger[d]] = d)
    <3>1. home' = home
      BY <1>9, <2>3 DEF RemoveLedger
    <3>2. \A b \in Dirs : ledger'[b] \in Files =>
            home'[ledger'[b]] \in Dirs /\ ledger'[home'[ledger'[b]]] = ledger'[b]
      BY <2>1, <2>3, <3>1 DEF OpenInv, NamesDiffer
    <3> QED BY <2>1, <3>1, <3>2 DEF OpenInv, Locked, OwnLedgerOnly
  <2> QED BY <2>2, <2>3
<1>10. ASSUME NEW d \in Dirs, LinkLedger(d)
       PROVE  OpenInv'
  <2>1. PICK entry \in {Symlink} \cup { ledger[e] : e \in Dirs } : ledger' = [ledger EXCEPT ![d] = entry]
    BY <1>10 DEF LinkLedger
  <2>2. /\ ledger[d] = None /\ UNCHANGED <<dir, home, parentLock, phase, file>>
        /\ \A e \in Dirs : ledger'[e] = IF e = d THEN entry ELSE ledger[e]
    BY <1>10, <2>1 DEF LinkLedger, OpenInv
  <2>3. \A b \in Dirs : ledger'[b] \in Files =>
          home'[ledger'[b]] \in Dirs /\ ledger'[home'[ledger'[b]]] = ledger'[b]
    BY <2>1, <2>2 DEF OpenInv, NamesDiffer
  <2>4. ledger' \in [Dirs -> Files \cup {None, Symlink}]
    BY <2>1 DEF OpenInv
  <2> QED BY <2>2, <2>3, <2>4 DEF OpenInv, Locked, OwnLedgerOnly
<1>11. CASE UNCHANGED vars
  BY <1>11 DEF vars, OpenInv, Locked, OwnLedgerOnly
<1> QED
  BY <1>1, <1>2, <1>3, <1>4, <1>5, <1>6, <1>7, <1>8, <1>9, <1>10, <1>11
  DEF Next, Opening, Operator

\* By whatever names programs come to a ledger, and whoever removes or replaces a lock file in
\* between, no two append to the same file.
THEOREM OneProgramWrites ==
  ASSUME NamesDiffer
  PROVE  Spec => []OneWriter
<1>1. Init => OpenInv
  BY OpenStarts
<1>2. OpenInv /\ [Next]_vars => OpenInv'
  BY OpenStep
<1>3. OpenInv => OneWriter
  BY DEF OpenInv, OneWriter, OwnLedgerOnly, Locked
<1> QED BY <1>1, <1>2, <1>3, PTL DEF Spec

\* Nor does one append to a ledger of another directory that was linked into its own.
THEOREM NobodyWritesElsewhere ==
  ASSUME NamesDiffer
  PROVE  Spec => []OwnLedgerOnly
<1>1. Init => OpenInv
  BY OpenStarts
<1>2. OpenInv /\ [Next]_vars => OpenInv'
  BY OpenStep
<1>3. OpenInv => OwnLedgerOnly
  BY DEF OpenInv
<1> QED BY <1>1, <1>2, <1>3, PTL DEF Spec

-----------------------------------------------------------------------------
(* ApiCredentials                                                           *)

Commanded ==
  [phase : {"Off"}]
    \cup [phase : {"Loaded", "Checked", "Asked", "Obtained"},
          action : {"Create", "Derive"}, account : Contents]
    \cup [phase : {"Read"},
          action : {"Create", "Derive"}, account : Contents, copy : Contents]

Reliant(state) == state.phase \in {"Checked", "Asked", "Obtained"}

\* A command that nobody has misled is about the account in the file until it has read it again,
\* and then has a copy whose key fits; what such a copy has replaced fits, too, in the file and
\* in what of it is durable.
AuthInv ==
  /\ command \in [Commands -> Commanded]
  /\ \A c \in Commands \ misled :
       /\ Reliant(command[c]) => SameAccount(command[c].account, credentials)
       /\ command[c].phase = "Read" => command[c].copy.key = command[c].copy.signer
  /\ writer = "Command" => credentials.key = credentials.signer
  /\ durableWriter = "Command" => durable.key = durable.signer
  /\ live # Absent =>
       (live.code = "Valid" /\ ~ live.overridden /\ live.from = "Command"
          => live.account.key = live.account.signer)

LEMMA AuthStarts == AuthInit => AuthInv
  BY DEF AuthInit, AuthInv, Off, Commanded, Reliant

\* load_credentials: the environment takes the place of what is stored.
LEMMA EffectiveIsAnAccount ==
  ASSUME NEW env \in Environments, credentials \in Contents
  PROVE  /\ Effective(env) \in Contents
         /\ env = NoOverrides => Effective(env) = credentials
<1>1. /\ Override(env, "signer", credentials.signer) \in Accounts
      /\ Override(env, "funder", credentials.funder) \in Accounts
  BY DEF Environments, Override, Contents
<1>2. Effective(env) = [credentials EXCEPT !.signer = Override(env, "signer", credentials.signer),
                                    !.funder = Override(env, "funder", credentials.funder)]
  BY DEF Effective, Contents
<1>3. Effective(env) \in Contents
  BY <1>1, <1>2 DEF Contents
<1>4. ASSUME env = NoOverrides
      PROVE  Effective(env) = credentials
  <2>1. /\ Override(env, "signer", credentials.signer) = credentials.signer
        /\ Override(env, "funder", credentials.funder) = credentials.funder
    BY <1>4 DEF Override, NoOverrides
  <2> QED BY <1>2, <2>1 DEF Contents
<1> QED BY <1>3, <1>4

\* A step of a command that leaves the file alone, and whose new state is as the invariant says.
LEMMA CommandSteps ==
  ASSUME AuthInv, NEW c \in Commands, NEW state \in Commanded, Becomes(c, state),
         UNCHANGED <<fileVars, live>>, misled \subseteq misled' \cup {c},
         c \notin misled' =>
           /\ Reliant(state) => SameAccount(state.account, credentials)
           /\ state.phase = "Read" => state.copy.key = state.copy.signer
  PROVE  AuthInv'
<1>1. command' = [command EXCEPT ![c] = state] /\ command' \in [Commands -> Commanded]
  BY DEF AuthInv, Becomes
<1>2. \A d \in Commands : command'[d] = IF d = c THEN state ELSE command[d]
  BY <1>1 DEF AuthInv
<1>3. UNCHANGED <<credentials, durable, writer, durableWriter, live>>
  BY DEF fileVars
<1>4. \A d \in Commands \ misled' :
        /\ Reliant(command'[d]) => SameAccount(command'[d].account, credentials)
        /\ command'[d].phase = "Read" => command'[d].copy.key = command'[d].copy.signer
  BY <1>2 DEF AuthInv
<1> QED BY <1>1, <1>3, <1>4 DEF AuthInv, SameAccount

\* Who is not misled by what is put into the file still finds its account there.
LEMMA PutMisleads ==
  ASSUME AuthInv, NEW new, Put(new), NEW c \in Commands \ misled', Reliant(command[c])
  PROVE  c \notin misled /\ SameAccount(command[c].account, new)
<1>1. c \in Relying
  BY DEF Relying, Reliant
<1>2. c \notin misled /\ SameAccount(credentials, new)
  BY <1>1 DEF Put
<1>3. SameAccount(command[c].account, credentials)
  BY <1>2 DEF AuthInv
<1> QED BY <1>2, <1>3 DEF SameAccount

LEMMA AuthStep == AuthInv /\ [AuthNext]_authVars => AuthInv'
<1> SUFFICES ASSUME AuthInv, [AuthNext]_authVars
             PROVE  AuthInv'
  OBVIOUS
<1>0. Off \in Commanded /\ Off.phase = "Off" /\ ~ Reliant(Off)
  BY DEF Off, Commanded, Reliant
<1>a. ASSUME NEW c \in Commands, Becomes(c, Off), UNCHANGED <<fileVars, live>>,
             misled' \in {misled, misled \ {c}}
      PROVE  AuthInv'
  BY <1>0, <1>a, CommandSteps
<1>b. ASSUME NEW c \in Commands, command[c].phase # "Off"
      PROVE  /\ command[c] \in Commanded \ [phase : {"Off"}]
             /\ command[c].account \in Contents /\ command[c].action \in {"Create", "Derive"}
  BY <1>b DEF AuthInv, Commanded
<1>1. ASSUME NEW c \in Commands, NEW action \in {"Create", "Derive"}, NEW env \in Environments,
             Load(c, action, env)
      PROVE  AuthInv'
  <2> DEFINE state == [phase |-> "Loaded", action |-> action, account |-> Effective(env)]
  <2>1. state \in Commanded
    BY <1>1, EffectiveIsAnAccount DEF Load, Readable, Commanded
  <2>2. ~ Reliant(state) /\ state.phase # "Read"
    BY DEF Reliant
  <2>3. Becomes(c, state) /\ UNCHANGED <<fileVars, live, misled>>
    BY <1>1 DEF Load
  <2> HIDE DEF state
  <2> QED BY <2>1, <2>2, <2>3, CommandSteps
<1>2. ASSUME NEW c \in Commands, Check(c)
      PROVE  AuthInv'
  <2> DEFINE state == [command[c] EXCEPT !.phase = "Checked"]
  <2>1. CASE Readable /\ Matches(command[c].account)
    <3>1. state \in Commanded /\ state.phase = "Checked" /\ state.account = command[c].account
      BY <1>2, <1>b DEF Check, Is, AuthInv, Commanded
    <3>2. SameAccount(state.account, credentials)
      BY <1>2, <1>b, <2>1, <3>1 DEF Check, Is, Readable, Matches, SameAccount
    <3>3. Becomes(c, state) /\ UNCHANGED <<fileVars, live>> /\ misled' = misled \ {c}
      BY <1>2, <2>1 DEF Check
    <3> HIDE DEF state
    <3> QED BY <3>1, <3>2, <3>3, CommandSteps
  <2>2. CASE ~ (Readable /\ Matches(command[c].account))
    BY <1>2, <1>a, <2>2 DEF Check
  <2> QED BY <2>1, <2>2
<1>3. ASSUME NEW c \in Commands, Ask(c)
      PROVE  AuthInv'
  <2> DEFINE account == command[c].account
             state == [command[c] EXCEPT !.phase = "Asked"]
  <2>1. CASE account.eoa /\ account.signer = account.funder
    <3>1. state \in Commanded /\ state.phase = "Asked" /\ state.account = command[c].account
      BY <1>3, <1>b DEF Ask, Is, AuthInv, Commanded
    <3>2. Becomes(c, state) /\ UNCHANGED <<fileVars, live, misled>> /\ Reliant(command[c])
      BY <1>3, <2>1 DEF Ask, Is, Reliant
    <3>3. c \notin misled => SameAccount(state.account, credentials)
      BY <3>1, <3>2 DEF AuthInv
    <3> HIDE DEF state
    <3> QED BY <3>1, <3>2, <3>3, CommandSteps
  <2>2. CASE ~ (account.eoa /\ account.signer = account.funder)
    BY <1>3, <1>a, <2>2 DEF Ask
  <2> QED BY <2>1, <2>2
<1>4. ASSUME NEW c \in Commands, Answer(c)
      PROVE  AuthInv'
  <2> DEFINE state == [command[c] EXCEPT !.phase = "Obtained"]
  <2>1. command[c].phase = "Asked" /\ UNCHANGED <<fileVars, live, misled>>
    BY <1>4 DEF Answer, Is
  <2>2. Becomes(c, state) \/ Becomes(c, Off)
    BY <1>4 DEF Answer
  <2>3. state \in Commanded /\ state.phase = "Obtained" /\ state.account = command[c].account
    BY <1>b, <2>1 DEF AuthInv, Commanded
  <2>4. CASE Becomes(c, state)
    <3>1. c \notin misled => SameAccount(state.account, credentials)
      BY <2>1, <2>3 DEF AuthInv, Reliant
    <3> HIDE DEF state
    <3> QED BY <2>1, <2>3, <2>4, <3>1, CommandSteps
  <2> QED BY <1>a, <2>1, <2>2, <2>4
<1>5. ASSUME NEW c \in Commands, Lost(c)
      PROVE  AuthInv'
  BY <1>5, <1>a DEF Lost
<1>6. ASSUME NEW c \in Commands, Fail(c)
      PROVE  AuthInv'
  BY <1>6, <1>a DEF Fail
<1>7. ASSUME NEW c \in Commands, Read(c)
      PROVE  AuthInv'
  <2> DEFINE copy == Updated(credentials, command[c].account.signer)
             state == [phase |-> "Read", action |-> command[c].action,
                       account |-> command[c].account, copy |-> copy]
  <2>1. command[c].phase = "Obtained" /\ UNCHANGED <<fileVars, live, misled>>
    BY <1>7 DEF Read, Is
  <2>2. CASE Readable
    <3>1. command[c].account \in Contents /\ command[c].account.signer \in Accounts
      BY <1>b, <2>1 DEF Contents
    <3>2. /\ copy \in Contents /\ copy.signer = credentials.signer
          /\ copy.key = command[c].account.signer
      BY <2>2, <3>1 DEF Readable, Updated, Contents
    <3>3. c \notin misled => copy.key = copy.signer
      BY <2>1, <3>2 DEF AuthInv, Reliant, SameAccount
    <3>4. Becomes(c, state)
      BY <1>7, <2>2 DEF Read
    <3> HIDE DEF copy
    <3>5. state \in Commanded /\ state.phase = "Read" /\ state.copy = copy /\ ~ Reliant(state)
      BY <1>b, <2>1, <3>2 DEF Commanded, Reliant
    <3> HIDE DEF state
    <3> QED BY <2>1, <3>3, <3>4, <3>5, CommandSteps
  <2>3. CASE ~ Readable
    BY <1>7, <1>a, <2>1, <2>3 DEF Read
  <2> QED BY <2>2, <2>3
<1>8. ASSUME NEW c \in Commands, Replace(c)
      PROVE  AuthInv'
  <2>1. /\ command[c].phase = "Read" /\ Put(command[c].copy) /\ credentials' = command[c].copy
        /\ command' = [command EXCEPT ![c] = Off] /\ UNCHANGED <<durable, durableWriter, live>>
        /\ writer' = IF c \in misled THEN "MisledCommand" ELSE "Command"
    BY <1>8 DEF Replace, Is, Becomes, Put
  <2>2. command' \in [Commands -> Commanded] /\ \A d \in Commands : command'[d] = IF d = c THEN Off ELSE command[d]
    BY <1>0, <2>1 DEF AuthInv
  <2>3. writer' = "Command" => credentials'.key = credentials'.signer
    BY <2>1 DEF AuthInv
  <2>4. misled \subseteq misled'
    BY <2>1 DEF Put
  <2>5. ASSUME NEW d \in Commands \ misled'
        PROVE  /\ Reliant(command'[d]) => SameAccount(command'[d].account, credentials')
               /\ command'[d].phase = "Read" => command'[d].copy.key = command'[d].copy.signer
    BY <1>0, <2>1, <2>2, <2>4, <2>5, PutMisleads DEF AuthInv
  <2> QED BY <2>1, <2>2, <2>3, <2>5 DEF AuthInv, SameAccount
<1>9. ASSUME NEW env \in Environments, Start(env)
      PROVE  AuthInv'
  <2>1. UNCHANGED <<credentials, durable, writer, durableWriter, command, misled>>
    BY <1>9 DEF Start, fileVars
  <2>2. live'.code = "Valid" /\ ~ live'.overridden /\ live'.from = "Command"
          => live'.account.key = live'.account.signer
    <3>1. CASE ~ Readable
      BY <1>9, <3>1 DEF Start
    <3>2. CASE Readable
      <4>1. live' = [code |-> StartCode(Effective(env)), account |-> Effective(env),
                     overridden |-> env # NoOverrides, from |-> writer]
        BY <1>9, <3>2 DEF Start
      <4>2. CASE env = NoOverrides
        BY <3>2, <4>1, <4>2, EffectiveIsAnAccount DEF AuthInv, Readable
      <4>3. CASE env # NoOverrides
        BY <4>1, <4>3
      <4> QED BY <4>2, <4>3
    <3> QED BY <3>1, <3>2
  <2> QED BY <2>1, <2>2 DEF AuthInv, SameAccount
<1>10. CASE Edit
  <2>1. PICK new \in Contents \cup {Absent, Garbled} : Put(new) /\ durable' = new
    BY <1>10 DEF Edit
  <2>2. credentials' = new /\ writer' = "User" /\ durableWriter' = "User" /\ UNCHANGED <<command, live>>
    BY <1>10, <2>1 DEF Edit, Put
  <2>3. misled \subseteq misled'
    BY <2>1 DEF Put
  <2>4. \A c \in Commands \ misled' :
          Reliant(command[c]) => SameAccount(command[c].account, new)
    BY <2>1, PutMisleads
  <2> QED BY <2>2, <2>3, <2>4 DEF AuthInv, SameAccount
<1>11. CASE WriteBack
  BY <1>11 DEF WriteBack, AuthInv, SameAccount
<1>12. CASE PowerLoss
  <2>1. /\ UNCHANGED <<live, misled>> /\ command' = [c \in Commands |-> Off]
        /\ durable' = credentials' /\ durableWriter' = writer'
        /\ writer' = "Command" => credentials'.key = credentials'.signer
    BY <1>12 DEF PowerLoss, AuthInv
  <2>2. command' \in [Commands -> Commanded] /\ \A c \in Commands : command'[c] = Off
    BY <1>0, <2>1
  <2> QED BY <1>0, <2>1, <2>2 DEF AuthInv
<1>13. CASE UNCHANGED authVars
  BY <1>13 DEF authVars, fileVars, AuthInv, SameAccount
<1> QED
  BY <1>1, <1>2, <1>3, <1>4, <1>5, <1>6, <1>7, <1>8, <1>9, <1>10, <1>11, <1>12, <1>13
  DEF AuthNext, Proceed

\* Whatever stands in the file before, whoever edits it when, and whatever commands run side by
\* side, are lost, fail or are cut off by a power loss: a command leaves the key of the account
\* beside it, unless that account was changed from its check to its second reading of the file,
\* and a live start that takes such a file as it is signs for the account of its key.
THEOREM KeysFitTheirAccount == AuthSpec => []KeyFitsAccount
<1>1. AuthInv => KeyFitsAccount
  BY DEF AuthInv, KeyFitsAccount
<1> QED BY <1>1, AuthStarts, AuthStep, PTL DEF AuthSpec
=============================================================================
