------------------------------ MODULE Profile ------------------------------
(* The local profiles of the desktop application, src-tauri/src/main.rs: the *)
(* key file, the database and the pointer to the profile in use, written one *)
(* after another by commands that may be killed between any two of them.     *)
(*                                                                           *)
(* A command runs on the main thread, so a copy of the application runs one  *)
(* at a time; nothing keeps a second copy from being started.                *)
EXTENDS Naturals

CONSTANTS
    Copy,       \* running copies of the application
    Session,    \* profiles of their own that logouts make
    Default,    \* valanium.db
    Absent,     \* no file, no profile, no secret
    Blank,      \* a database without a keyring
    Typed,      \* the password of a database of the old version
    Found,      \* what an earlier version left of the default: Absent or Typed
    MaxSecrets  \* secrets drawn in a behaviour

ASSUME ProfileAssumption ==
    /\ Default \notin Session /\ MaxSecrets \in Nat /\ Found \in {Absent, Typed}
    /\ Absent # Blank /\ Blank # Typed /\ Typed # Absent
    /\ {Absent, Blank, Typed} \intersect (Session \union {Default} \union 0 .. MaxSecrets) = {}
    /\ \A s \in {Typed} \union 0 .. MaxSecrets, l \in BOOLEAN : Absent # [secret |-> s, locked |-> l]

VARIABLES
    keyFile,    \* per profile: Absent, or what *.key.dpapi holds
    database,   \* per profile: Absent, Blank, or the secret that seals it
    pointer,     \* the file active-profile: Default (none), a session or "torn"
    opened,     \* per copy: the engine it runs, or NoEngine
    doing,      \* per copy: what its command does next
    minted,     \* secrets drawn so far
    overlapped  \* a copy has acted in the middle of another's command (history)

profileVars == <<keyFile, database, pointer, opened, doing, minted, overlapped>>

Profiles == Session \union {Default}
NoEngine == [profile |-> Absent, secret |-> Absent]
NoCommand == [at |-> "idle", profile |-> Absent, secret |-> Absent, lock |-> FALSE]

\* A torn or a missing pointer means the default profile.
Current == IF pointer \in Session THEN pointer ELSE Default

KeyOf(p) == keyFile[p]
Sealed(d) == d \notin {Absent, Blank}

\* Store::open of a missing or blank database takes any secret.
Opens(p, s) == database[p] \in {Absent, Blank, s}
Created(p) == [database EXCEPT ![p] = IF @ = Absent THEN Blank ELSE @]

Unheld(p, c) == \A o \in Copy \ {c} : opened[o].profile # p

\* The next step of copy c, which may fall into another's command (the question
\* for an old password is a part of one: unlock_existing does not look whether
\* there is a key file by now, and replaces it).
Goes(c, next) ==
    /\ doing' = [doing EXCEPT ![c] = next]
    /\ overlapped' = (overlapped \/ \E o \in Copy \ {c} : doing[o].at # "idle")

To(at, p, s) == [at |-> at, profile |-> p, secret |-> s, lock |-> FALSE]

Fresh == minted + 1

-----------------------------------------------------------------------------
(* Opening the profile in use                                                 *)

\* auto_unlock, or unlock_with_password of a locked key with the right one.
ReadKey(c) ==
    LET p == Current IN
    /\ doing[c].at = "idle" /\ opened[c] = NoEngine /\ KeyOf(p) # Absent
    /\ Goes(c, To("start", p, KeyOf(p).secret))
    /\ UNCHANGED <<keyFile, database, pointer, opened, minted>>

\* auto_unlock of a new profile.
FirstSecret(c) ==
    LET p == Current IN
    /\ doing[c].at = "idle" /\ opened[c] = NoEngine /\ minted < MaxSecrets
    /\ KeyOf(p) = Absent /\ database[p] = Absent
    /\ minted' = Fresh /\ Goes(c, To("save", p, Fresh))
    /\ UNCHANGED <<keyFile, database, pointer, opened>>

\* auto_unlock of a database without a key file: the window asks for a password.
SeesLegacy(c) ==
    LET p == Current IN
    /\ doing[c].at = "idle" /\ opened[c] = NoEngine
    /\ KeyOf(p) = Absent /\ database[p] # Absent
    /\ Goes(c, To("legacy", p, Absent))
    /\ UNCHANGED <<keyFile, database, pointer, opened, minted>>

\* Bug: the key file is written before the password is tried.
UnlockExisting_Untried(c, typed) ==
    LET p == Current IN
    /\ doing[c].at = "legacy" /\ Goes(c, To("save", p, typed))
    /\ UNCHANGED <<keyFile, database, pointer, opened, minted>>

\* The password is tried on the database before anything is written.
UnlockExisting(c, typed) ==
    LET p == Current IN
    /\ doing[c].at = "legacy"
    /\ IF Opens(p, typed)
       THEN database' = Created(p) /\ Goes(c, To("save", p, typed))
       ELSE UNCHANGED database /\ Goes(c, doing[c])
    /\ UNCHANGED <<keyFile, pointer, opened, minted>>

\* The unknown database moves to legacy-backups, if nobody holds it open.
ResetLegacy(c) ==
    LET p == Current IN
    /\ doing[c].at = "legacy" /\ KeyOf(p) = Absent /\ Unheld(p, c) /\ minted < MaxSecrets
    /\ database' = [database EXCEPT ![p] = Absent]
    /\ minted' = Fresh /\ Goes(c, To("save", p, Fresh))
    /\ UNCHANGED <<keyFile, pointer, opened>>

\* The key file is replaced as a whole; the engine is started next.
SaveKey(c) ==
    /\ doing[c].at = "save"
    /\ keyFile' = [keyFile EXCEPT ![doing[c].profile] = [secret |-> doing[c].secret, locked |-> FALSE]]
    /\ Goes(c, [doing[c] EXCEPT !.at = "start"])
    /\ UNCHANGED <<database, pointer, opened, minted>>

\* start_engine looks up the profile in use once more.
StartEngine(c) ==
    LET p == Current s == doing[c].secret IN
    /\ doing[c].at = "start"
    /\ IF opened[c] = NoEngine /\ Opens(p, s)
       THEN /\ database' = Created(p)
            /\ opened' = [opened EXCEPT ![c] =
                            IF Unheld(p, c) THEN [profile |-> p, secret |-> s] ELSE @]
       ELSE UNCHANGED <<database, opened>>
    /\ Goes(c, NoCommand) /\ UNCHANGED <<keyFile, pointer, minted>>

\* An account is made, and with it the keyring under the engine's secret.
Register(c) ==
    /\ doing[c].at = "idle" /\ opened[c] # NoEngine
    /\ database[opened[c].profile] = Blank
    /\ database' = [database EXCEPT ![opened[c].profile] = opened[c].secret]
    /\ Goes(c, NoCommand) /\ UNCHANGED <<keyFile, pointer, opened, minted>>

-----------------------------------------------------------------------------
(* The password of the application                                            *)

\* set_app_lock: the key is read, with the current password if there is one.
SetLock(c, lock) ==
    LET p == Current IN
    /\ doing[c].at = "idle" /\ KeyOf(p) # Absent
    /\ Goes(c, [at |-> "relock", profile |-> p, secret |-> KeyOf(p).secret, lock |-> lock])
    /\ UNCHANGED <<keyFile, database, pointer, opened, minted>>

WriteLock(c) ==
    /\ doing[c].at = "relock"
    /\ keyFile' = [keyFile EXCEPT ![doing[c].profile] =
                    [secret |-> doing[c].secret, locked |-> doing[c].lock]]
    /\ Goes(c, NoCommand) /\ UNCHANGED <<database, pointer, opened, minted>>

-----------------------------------------------------------------------------
(* logout_local_account                                                       *)

\* The engine ends; a profile with a name of its own gets its key file first.
Logout(c, p) ==
    /\ doing[c].at \in {"idle", "legacy"} /\ minted < MaxSecrets
    /\ KeyOf(p) = Absent /\ database[p] = Absent
    /\ \A o \in Copy : doing[o].profile # p
    /\ opened' = [opened EXCEPT ![c] = NoEngine]
    /\ minted' = Fresh /\ Goes(c, To("out", p, Fresh))
    /\ UNCHANGED <<keyFile, database, pointer>>

LogoutKey(c) ==
    /\ doing[c].at = "out"
    /\ keyFile' = [keyFile EXCEPT ![doing[c].profile] = [secret |-> doing[c].secret, locked |-> FALSE]]
    /\ Goes(c, [doing[c] EXCEPT !.at = "verify"])
    /\ UNCHANGED <<database, pointer, opened, minted>>

LogoutDatabase(c) ==
    /\ doing[c].at = "verify"
    /\ database' = Created(doing[c].profile)
    /\ Goes(c, [doing[c] EXCEPT !.at = "point"])
    /\ UNCHANGED <<keyFile, pointer, opened, minted>>

\* fs::write empties active-profile, then writes the name.
LogoutEmpties(c) ==
    /\ doing[c].at = "point" /\ pointer' = "torn"
    /\ Goes(c, [doing[c] EXCEPT !.at = "name"])
    /\ UNCHANGED <<keyFile, database, opened, minted>>

LogoutNames(c) ==
    /\ doing[c].at = "name" /\ pointer' = doing[c].profile
    /\ Goes(c, [doing[c] EXCEPT !.at = "start"])
    /\ UNCHANGED <<keyFile, database, opened, minted>>

\* Quit, killed, or the machine goes down: the next copy starts from the files.
Kill(c) ==
    /\ opened' = [opened EXCEPT ![c] = NoEngine] /\ doing' = [doing EXCEPT ![c] = NoCommand]
    /\ UNCHANGED <<keyFile, database, pointer, minted, overlapped>>

-----------------------------------------------------------------------------
\* A first start, or one after an update of the version without key files.
ProfileInit ==
    /\ keyFile = [p \in Profiles |-> Absent]
    /\ database = [p \in Profiles |-> IF p = Default THEN Found ELSE Absent]
    /\ pointer = Default /\ minted = 0 /\ overlapped = FALSE
    /\ opened = [c \in Copy |-> NoEngine] /\ doing = [c \in Copy |-> NoCommand]

Opening(c) ==
    \/ ReadKey(c) \/ FirstSecret(c) \/ SeesLegacy(c) \/ ResetLegacy(c)
    \/ \E typed \in {Typed, 0} : UnlockExisting(c, typed)
    \/ SaveKey(c) \/ StartEngine(c) \/ Register(c)
LoggingOut(c) ==
    \/ \E p \in Session : Logout(c, p)
    \/ LogoutKey(c) \/ LogoutDatabase(c) \/ LogoutEmpties(c) \/ LogoutNames(c)

ProfileNext ==
    \E c \in Copy :
        \/ Opening(c) \/ LoggingOut(c) \/ Kill(c)
        \/ WriteLock(c) \/ \E lock \in BOOLEAN : SetLock(c, lock)

ProfileSpec == ProfileInit /\ [][ProfileNext]_profileVars

-----------------------------------------------------------------------------
(* Properties                                                                 *)

\* No crash leaves an account that nothing opens: a key file holds the secret
\* that seals its database, and a database sealed by a drawn secret has its
\* key file (write_key_file: "an interruption must not leave a person with a
\* database there is nothing to open with"). Where commands of two copies
\* overlap nothing is promised.
KeyOpens ==
    overlapped \/ \A p \in Profiles : Sealed(database[p]) =>
        IF KeyOf(p) = Absent THEN database[p] = Typed ELSE KeyOf(p).secret = database[p]
=============================================================================
