------------------------------ MODULE ApiCredentials ------------------------------
(***************************************************************************)
(* The API credentials of an account: the auth commands that have the       *)
(* exchange create or derive them (main.rs, clob_auth.rs), the file they    *)
(* are kept in (config.rs) and the live start that reads it                 *)
(* (order_executor.rs).                                                     *)
(*                                                                          *)
(* An account is known by its address: the file and the environment name it *)
(* twice, by the key that signs and by the funder.  An account has one set  *)
(* of API credentials, which is named like it; the exchange creates it once *)
(* and derives it as often as it is asked to.  The rest of the file is left *)
(* out.  Host and chain are those of the official exchange.                 *)
(***************************************************************************)
EXTENDS Naturals

CONSTANTS Accounts,
          Commands,        \* auth commands that run side by side
          MaxEdits,        \* bound: edits of the file
          Absent, Garbled

VARIABLES credentials, \* the credentials file: what it holds, Garbled, or Absent
          durable,     \* what of it a power loss leaves
          issued,      \* the accounts the exchange has created credentials for
          command,     \* the auth commands
          live,        \* what the last live start came to
          edits,
          writer,      \* history: who wrote the file, a member of Writers
          durableWriter, \* and who wrote what of it is durable
          misled       \* history: the commands in whose course the account in the file changed

fileVars == <<credentials, durable, writer, durableWriter>>
authVars == <<fileVars, issued, command, live, edits, misled>>

\* The user, a command, or a command from whose check to whose second reading of the file
\* another account was put there.
Writers == {"User", "Command", "MisledCommand"}

Contents == [signer : Accounts, funder : Accounts, eoa : BOOLEAN, key : Accounts \cup {Absent}]

\* PM_PRIVATE_KEY and PM_FUNDER_ADDRESS, each set or not.
Environments == [signer : Accounts \cup {Absent}, funder : Accounts \cup {Absent}]

NoOverrides == [signer |-> Absent, funder |-> Absent]

Off == [phase |-> "Off"]

AuthInit ==
  /\ credentials \in Contents \cup {Absent, Garbled} /\ durable = credentials
  /\ issued \in SUBSET Accounts
  /\ command = [c \in Commands |-> Off]
  /\ live = Absent /\ edits = 0
  /\ writer = "User" /\ durableWriter = "User" /\ misled = {}

Is(c, phase) == command[c].phase = phase

Becomes(c, state) == command' = [command EXCEPT ![c] = state]

-----------------------------------------------------------------------------
(* Reading the file                                                         *)

Override(env, name, stored) == IF env[name] = Absent THEN stored ELSE env[name]

\* load_credentials.
Effective(env) ==
  [credentials EXCEPT !.signer = Override(env, "signer", @), !.funder = Override(env, "funder", @)]

Readable == credentials \in Contents

\* load_config_for_command: an auth command needs a file it can parse.
Load(c, action, env) ==
  /\ Is(c, "Off") /\ Readable
  /\ Becomes(c, [phase |-> "Loaded", action |-> action, account |-> Effective(env)])
  /\ UNCHANGED <<fileVars, issued, live, edits, misled>>

\* ensure_credentials_file_account_matches.
Matches(account) ==
  credentials.signer = account.signer /\ credentials.funder = account.funder /\ credentials.eoa = account.eoa

Check(c) ==
  /\ Is(c, "Loaded")
  /\ IF Readable /\ Matches(command[c].account)
     THEN Becomes(c, [command[c] EXCEPT !.phase = "Checked"]) ELSE Becomes(c, Off)
  /\ misled' = misled \ {c}
  /\ UNCHANGED <<fileVars, issued, live, edits>>

-----------------------------------------------------------------------------
(* The exchange                                                             *)

\* obtain_api_credentials: an EOA whose funder is its signer.
Ask(c) ==
  /\ Is(c, "Checked")
  /\ LET account == command[c].account
     IN IF account.eoa /\ account.signer = account.funder
        THEN Becomes(c, [command[c] EXCEPT !.phase = "Asked"]) ELSE Becomes(c, Off)
  /\ UNCHANGED <<fileVars, issued, live, edits, misled>>

\* obtain_with_client, validate_credentials: neither action falls back to the other.
Answer(c) ==
  /\ Is(c, "Asked")
  /\ LET account == command[c].account.signer
         create == command[c].action = "Create"
     IN IF create # (account \in issued)
        THEN /\ issued' = IF create THEN issued \cup {account} ELSE issued
             /\ Becomes(c, [command[c] EXCEPT !.phase = "Obtained"])
        ELSE Becomes(c, Off) /\ UNCHANGED issued
  /\ UNCHANGED <<fileVars, live, edits, misled>>

\* Nothing comes back, or nothing that can be used; the request may have been served.
Lost(c) ==
  /\ Is(c, "Asked")
  /\ issued' \in {issued} \cup IF command[c].action = "Create"
                               THEN {issued \cup {command[c].account.signer}} ELSE {}
  /\ Becomes(c, Off)
  /\ UNCHANGED <<fileVars, live, edits, misled>>

-----------------------------------------------------------------------------
(* Writing the file                                                         *)

\* The three API fields are replaced, everything else is as it is stored.
Updated(stored, key) == [stored EXCEPT !.key = key]

\* The commands that have looked at the account in the file and have yet to read it again.
Relying == { c \in Commands : command[c].phase \in {"Checked", "Asked", "Obtained"} }

SameAccount(a, b) ==
  a \in Contents /\ b \in Contents /\ a.signer = b.signer /\ a.funder = b.funder /\ a.eoa = b.eoa

\* The file comes to hold `new`, by whatever hand.
Put(new) ==
  /\ credentials' = new
  /\ misled' = misled \cup IF SameAccount(credentials, new) THEN {} ELSE Relying

\* persist_api_credentials_with reads the file again, and does not look at its account.
Read(c) ==
  /\ Is(c, "Obtained")
  /\ IF Readable
     THEN Becomes(c, [phase |-> "Read", action |-> command[c].action, account |-> command[c].account,
                      copy |-> Updated(credentials, command[c].account.signer)])
     ELSE Becomes(c, Off)
  /\ UNCHANGED <<fileVars, issued, live, edits, misled>>

\* The new file is synced before it takes the place of the old one.
Replace(c) ==
  /\ Is(c, "Read")
  /\ Put(command[c].copy) /\ Becomes(c, Off)
  /\ writer' = IF c \in misled THEN "MisledCommand" ELSE "Command"
  /\ UNCHANGED <<durable, durableWriter, issued, live, edits>>

\* Any step fails, or the program is stopped: the temporary file goes, the old one stays.
Fail(c) ==
  /\ command[c].phase \in {"Loaded", "Checked", "Obtained", "Read"}
  /\ Becomes(c, Off)
  /\ UNCHANGED <<fileVars, issued, live, edits, misled>>

-----------------------------------------------------------------------------
(* The live start                                                           *)

\* validate_live_configuration.
StartCode(account) ==
  IF ~ account.eoa THEN "UnsupportedSignatureType"
  ELSE IF account.signer # account.funder THEN "FunderMismatch"
  ELSE IF account.key = Absent THEN "MissingCredentials" ELSE "Valid"

Start(env) ==
  /\ live' = IF Readable THEN [code |-> StartCode(Effective(env)), account |-> Effective(env),
                                overridden |-> env # NoOverrides, from |-> writer]
             ELSE [code |-> "Unreadable"]
  /\ UNCHANGED <<fileVars, issued, command, edits, misled>>

-----------------------------------------------------------------------------
(* The user and the machine                                                 *)

\* At any time, to anything: the keys of the old account may stay beside the new one.
Edit ==
  /\ edits < MaxEdits /\ edits' = edits + 1
  /\ \E new \in Contents \cup {Absent, Garbled} : Put(new) /\ durable' = new
  /\ writer' = "User" /\ durableWriter' = "User"
  /\ UNCHANGED <<issued, command, live>>

WriteBack ==
  /\ durable' = credentials /\ durableWriter' = writer
  /\ UNCHANGED <<credentials, writer, issued, command, live, edits, misled>>

\* What is left is the old file or the new one.
PowerLoss ==
  /\ \/ UNCHANGED <<credentials, writer>>
     \/ credentials' = durable /\ writer' = durableWriter
  /\ durable' = credentials' /\ durableWriter' = writer'
  /\ command' = [c \in Commands |-> Off]
  /\ UNCHANGED <<issued, live, edits, misled>>

-----------------------------------------------------------------------------

Proceed(c) == Check(c) \/ Ask(c) \/ Answer(c) \/ Read(c) \/ Replace(c)

AuthNext ==
  \/ \E c \in Commands :
       \/ \E action \in {"Create", "Derive"}, env \in Environments : Load(c, action, env)
       \/ Proceed(c) \/ Lost(c) \/ Fail(c)
  \/ \E env \in Environments : Start(env)
  \/ Edit \/ WriteBack \/ PowerLoss

AuthSpec == AuthInit /\ [][AuthNext]_authVars

-----------------------------------------------------------------------------
(* Properties                                                               *)

\* The variables have their types.
AuthTypeOK ==
  /\ {credentials, durable} \subseteq Contents \cup {Absent, Garbled}
  /\ {writer, durableWriter} \subseteq Writers /\ misled \subseteq Commands
  /\ issued \subseteq Accounts /\ edits <= MaxEdits
  /\ \A c \in Commands :
       command[c].phase \in {"Off", "Loaded", "Checked", "Asked", "Obtained", "Read"}

\* Whatever stood in the file before, and whatever other commands, edits and power losses come
\* between its steps, a command leaves the key of the account beside it, unless that account was
\* changed from its check to its second reading; and a live start that takes such a file as it
\* is signs for the account its API credentials belong to.
KeyFitsAccount ==
  /\ writer = "Command" => credentials.key = credentials.signer
  /\ live # Absent =>
       (live.code = "Valid" /\ ~ live.overridden /\ live.from = "Command"
          => live.account.key = live.account.signer)
=============================================================================
