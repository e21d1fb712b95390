--------------------------- MODULE DesktopProofs ---------------------------
(* Of the desktop application, for any number of copies, profiles, secrets,  *)
(* Tor processes and installations: no account is left without what opens    *)
(* it, and no Tor process without an owner. And of the processes that may    *)
(* open one database: no ratchet is used twice, nobody is turned away. And   *)
(* of the door to one identity: its book of passes is true at the relay.     *)
EXTENDS Engine, Profile, Onionize, Door, FiniteSetTheorems, SequenceTheorems, TLAPS

-----------------------------------------------------------------------------
(* The local profiles                                                         *)

Secrets == {Typed} \union 0 .. MaxSecrets
KeyFiles == {Absent} \union [secret : Secrets, locked : BOOLEAN]
Commands == [at : {"idle", "legacy", "save", "start", "relock", "out", "verify", "point", "name"},
             profile : Profiles \union {Absent}, secret : Secrets \union {Absent}, lock : BOOLEAN]
Engines == [profile : Profiles \union {Absent}, secret : Secrets \union {Absent}]

ProfileType ==
    /\ keyFile \in [Profiles -> KeyFiles]
    /\ database \in [Profiles -> Secrets \union {Absent, Blank}]
    /\ opened \in [Copy -> Engines]
    /\ doing \in [Copy -> Commands]
    /\ minted \in 0 .. MaxSecrets /\ overlapped \in BOOLEAN
    /\ \A c \in Copy :
        /\ doing[c].at # "idle" => doing[c].profile \in Profiles
        /\ doing[c].at \notin {"idle", "legacy"} => doing[c].secret \in Secrets

\* The key file of profile p holds secret s.
Holds(p, s) == KeyOf(p) # Absent /\ KeyOf(p).secret = s

\* No copy acts in the middle of another's command.
OneCommand ==
    \A c, o \in Copy : doing[c].at # "idle" /\ doing[o].at # "idle" => c = o

\* An engine runs under the secret of the key file.
EngineHasKey ==
    \A c \in Copy : opened[c] # NoEngine =>
        opened[c].profile \in Profiles /\ Holds(opened[c].profile, opened[c].secret)

\* What a command has looked up is still so when it goes on.
CommandTrue ==
    \A c \in Copy :
        LET d == doing[c] IN
        /\ d.at \in {"legacy", "save"} => d.profile = Current /\ KeyOf(d.profile) = Absent
        /\ d.at = "save" => Opens(d.profile, d.secret)
        /\ d.at = "start" => Holds(Current, d.secret)
        /\ d.at \in {"relock", "verify", "point", "name"} => Holds(d.profile, d.secret)
        /\ d.at \in {"out", "verify", "point", "name"} => d.profile \in Session
        /\ d.at = "out" => KeyOf(d.profile) = Absent /\ database[d.profile] = Absent

Quiet == OneCommand /\ EngineHasKey /\ CommandTrue /\ KeyOpens
ProfileInv == ProfileType /\ (~overlapped => Quiet)

-----------------------------------------------------------------------------
(* Tor                                                                        *)

OnionType ==
    /\ tor \in [Tor -> {"unused", "boots", "ready", "dead", "failed"}]
    /\ running \in Tor \union {0} /\ socks \in Tor \union {0}
    /\ \/ starter.at \in {"no", "checked"} /\ starter.child = 0
       \/ starter.at \in {"waits", "announced"} /\ starter.child \in Tor
    /\ starter = [at |-> starter.at, child |-> starter.child]

\* Between the lines: what is handed over has its address, and nothing is
\* while another process is being started.
HandedOver ==
    /\ starter.at = "no" => socks = running
    /\ starter.at # "no" => running = 0
    /\ starter.at \in {"checked", "waits"} => socks = 0
    /\ starter.at = "announced" => socks = starter.child
    /\ Alive \subseteq {running, starter.child}

OnionInv == OnionType /\ (~crossed => HandedOver)

LEMMA ProfileInitInv == ProfileInit => ProfileInv
  <1> SUFFICES ASSUME ProfileInit PROVE ProfileInv
    OBVIOUS
  <1>1. \A c \in Copy : doing[c].at = "idle" /\ opened[c] = NoEngine
    BY DEF ProfileInit, NoCommand
  <1>2. ProfileType
    <2>1. NoCommand \in Commands /\ NoEngine \in Engines /\ Absent \in KeyFiles
      BY DEF NoCommand, Commands, NoEngine, Engines, KeyFiles
    <2>2. Found \in Secrets \union {Absent, Blank} /\ Default \in Profiles /\ 0 \in 0 .. MaxSecrets
      BY ProfileAssumption DEF Secrets, Profiles
    <2> QED
      BY <1>1, <2>1, <2>2 DEF ProfileInit, ProfileType
  <1>3. KeyOpens
    BY ProfileAssumption DEF ProfileInit, KeyOpens, KeyOf, Sealed
  <1> QED
    BY <1>1, <1>2, <1>3 DEF ProfileInv, Quiet, OneCommand, EngineHasKey, CommandTrue

\* The step of a command changes that command only, and is quiet only if no
\* other command is under way.
LEMMA OneGoes ==
  ASSUME NEW c \in Copy, NEW next \in Commands, ProfileType, Goes(c, next)
  PROVE  /\ doing' \in [Copy -> Commands] /\ doing'[c] = next
         /\ \A o \in Copy \ {c} : doing'[o] = doing[o]
         /\ overlapped' \in BOOLEAN
         /\ ~overlapped' => ~overlapped /\ \A o \in Copy \ {c} : doing[o].at = "idle" /\ doing'[o].at = "idle"
  BY DEF Goes, ProfileType

\* So a quiet step is judged by its own command.
LEMMA QuietStep ==
  ASSUME NEW c \in Copy, NEW next \in Commands, ProfileType, Goes(c, next)
  PROVE  ~overlapped' =>
            /\ OneCommand'
            /\ LET d == next IN
               (/\ d.at \in {"legacy", "save"} => d.profile = Current' /\ KeyOf(d.profile)' = Absent
                /\ d.at = "save" => Opens(d.profile, d.secret)'
                /\ d.at = "start" => Holds(Current, d.secret)'
                /\ d.at \in {"relock", "verify", "point", "name"} => Holds(d.profile, d.secret)'
                /\ d.at \in {"out", "verify", "point", "name"} => d.profile \in Session
                /\ d.at = "out" => KeyOf(d.profile)' = Absent /\ database'[d.profile] = Absent)
               => CommandTrue'
  BY OneGoes DEF OneCommand, CommandTrue

\* A command that is made of its parts.
LEMMA ToIsCommand ==
  ASSUME NEW at \in {"legacy", "save", "start", "out"}, NEW p \in Profiles,
         NEW s \in Secrets \union {Absent}
  PROVE  /\ To(at, p, s) \in Commands
         /\ To(at, p, s).at = at /\ To(at, p, s).profile = p /\ To(at, p, s).secret = s
  BY DEF To, Commands

LEMMA CurrentIsProfile == Current \in Profiles /\ Session \subseteq Profiles
  BY DEF Current, Profiles

\* A key file that is there holds a secret.
LEMMA KeyHolds ==
  ASSUME ProfileType, NEW p \in Profiles, KeyOf(p) # Absent
  PROVE  KeyOf(p).secret \in Secrets
  BY DEF ProfileType, KeyFiles, KeyOf

\* A key file that is written is there.
LEMMA KeyIsWritten ==
  ASSUME NEW s \in Secrets, NEW lock \in BOOLEAN
  PROVE  LET k == [secret |-> s, locked |-> lock] IN k \in KeyFiles /\ k # Absent /\ k.secret = s
  BY ProfileAssumption DEF KeyFiles, Secrets

LEMMA FreshIsSecret == ProfileType /\ minted < MaxSecrets => Fresh \in Secrets /\ Fresh \in 0 .. MaxSecrets
  BY ProfileAssumption DEF ProfileType, Fresh, Secrets

\* The next part of a command.
LEMMA NextPart ==
  ASSUME ProfileType, NEW c \in Copy, NEW at \in {"start", "verify", "point", "name"}
  PROVE  LET n == [doing[c] EXCEPT !.at = at]
         IN  /\ n \in Commands /\ n.at = at
             /\ n.profile = doing[c].profile /\ n.secret = doing[c].secret
  BY DEF ProfileType, Commands

LEMMA NoneIsCommand == NoCommand \in Commands /\ NoCommand.at = "idle"
  BY DEF NoCommand, Commands

LEMMA ProfileStepInv == ProfileInv /\ [ProfileNext]_profileVars => ProfileInv'
  <1> SUFFICES ASSUME ProfileInv, [ProfileNext]_profileVars PROVE ProfileInv'
    OBVIOUS
  <1>a. ProfileType /\ (~overlapped => Quiet)
    BY DEF ProfileInv
  <1>b. Current \in Profiles /\ Session \subseteq Profiles
    BY CurrentIsProfile
  <1>1. ASSUME NEW c \in Copy, ReadKey(c) PROVE ProfileInv'
    <2> DEFINE next == To("start", Current, KeyOf(Current).secret)
    <2>1. KeyOf(Current).secret \in Secrets
      BY <1>1, <1>a, <1>b, KeyHolds DEF ReadKey
    <2>2. /\ next \in Commands
          /\ next.at = "start" /\ next.profile = Current /\ next.secret = KeyOf(Current).secret
      BY <1>b, <2>1, ToIsCommand
    <2>3. Goes(c, next) /\ UNCHANGED <<keyFile, database, pointer, opened, minted>>
      BY <1>1 DEF ReadKey
    <2>4. KeyOf(Current) # Absent
      BY <1>1 DEF ReadKey
    <2> HIDE DEF next
    <2>5. ProfileType'
      BY <1>a, <1>b, <2>1, <2>2, <2>3, OneGoes DEF ProfileType
    <2>6. ASSUME ~overlapped' PROVE Quiet'
      <3>1. ~overlapped /\ OneCommand'
        BY <1>a, <2>2, <2>3, <2>6, OneGoes, QuietStep
      <3>2. CommandTrue'
        BY <1>a, <2>2, <2>3, <2>4, <2>6, QuietStep DEF Holds, Current, KeyOf
      <3>3. EngineHasKey' /\ KeyOpens'
        BY <1>a, <2>3, <3>1 DEF Quiet, EngineHasKey, KeyOpens, Holds, KeyOf
      <3> QED BY <3>1, <3>2, <3>3 DEF Quiet
    <2> QED BY <2>5, <2>6 DEF ProfileInv
  <1>2. ASSUME NEW c \in Copy, FirstSecret(c) PROVE ProfileInv'
    <2> DEFINE next == To("save", Current, Fresh)
    <2>f. Fresh \in Secrets /\ Fresh \in 0 .. MaxSecrets
      BY <1>2, <1>a, FreshIsSecret DEF FirstSecret
    <2>n. /\ next \in Commands
          /\ next.at = "save" /\ next.profile = Current /\ next.secret = Fresh
      BY <1>b, <2>f, ToIsCommand
    <2>g. /\ Goes(c, next) /\ UNCHANGED <<keyFile, database, pointer, opened>> /\ minted' = Fresh
          /\ KeyOf(Current) = Absent /\ database[Current] = Absent
      BY <1>2 DEF FirstSecret
    <2> HIDE DEF next
    <2>t. ProfileType'
      BY <1>a, <1>b, <2>f, <2>n, <2>g, OneGoes DEF ProfileType
    <2>q. ASSUME ~overlapped' PROVE Quiet'
      <3>1. ~overlapped /\ Quiet /\ OneCommand'
        BY <1>a, <2>n, <2>g, <2>q, OneGoes, QuietStep
      <3>2. CommandTrue'
        BY <1>a, <2>n, <2>g, <2>q, QuietStep DEF Current, KeyOf, Opens
      <3>3. EngineHasKey' /\ KeyOpens'
        BY <1>a, <2>g, <3>1 DEF Quiet, EngineHasKey, KeyOpens, Holds, KeyOf
      <3> QED BY <3>1, <3>2, <3>3 DEF Quiet
    <2> QED BY <2>t, <2>q DEF ProfileInv
  <1>3. ASSUME NEW c \in Copy, SeesLegacy(c) PROVE ProfileInv'
    <2> DEFINE next == To("legacy", Current, Absent)
    <2>n. /\ next \in Commands
          /\ next.at = "legacy" /\ next.profile = Current
      BY <1>b, ToIsCommand
    <2>g. /\ Goes(c, next) /\ UNCHANGED <<keyFile, database, pointer, opened, minted>>
          /\ KeyOf(Current) = Absent
      BY <1>3 DEF SeesLegacy
    <2> HIDE DEF next
    <2>t. ProfileType'
      BY <1>a, <1>b, <2>n, <2>g, OneGoes DEF ProfileType
    <2>q. ASSUME ~overlapped' PROVE Quiet'
      <3>1. ~overlapped /\ Quiet /\ OneCommand'
        BY <1>a, <2>n, <2>g, <2>q, OneGoes, QuietStep
      <3>2. CommandTrue'
        BY <1>a, <2>n, <2>g, <2>q, QuietStep DEF Current, KeyOf, Opens
      <3>3. EngineHasKey' /\ KeyOpens'
        BY <1>a, <2>g, <3>1 DEF Quiet, EngineHasKey, KeyOpens, Holds, KeyOf
      <3> QED BY <3>1, <3>2, <3>3 DEF Quiet
    <2> QED BY <2>t, <2>q DEF ProfileInv
  <1>4. ASSUME NEW c \in Copy, NEW typed \in {Typed, 0}, UnlockExisting(c, typed), Opens(Current, typed) PROVE ProfileInv'
    <2> DEFINE next == To("save", Current, typed)
    <2>s. typed \in Secrets
      BY ProfileAssumption DEF Secrets
    <2>n. /\ next \in Commands
          /\ next.at = "save" /\ next.profile = Current /\ next.secret = typed
      BY <1>b, <2>s, ToIsCommand
    <2>g. /\ Goes(c, next) /\ UNCHANGED <<keyFile, pointer, opened, minted>> /\ doing[c].at = "legacy"
          /\ database' = [database EXCEPT ![Current] = IF @ = Absent THEN Blank ELSE @]
      BY <1>4 DEF UnlockExisting, Created
    <2> HIDE DEF next
    <2>t. ProfileType'
      BY <1>a, <1>b, <2>s, <2>n, <2>g, OneGoes DEF ProfileType
    <2>q. ASSUME ~overlapped' PROVE Quiet'
      <3>1. ~overlapped /\ Quiet /\ OneCommand'
        BY <1>a, <2>n, <2>g, <2>q, OneGoes, QuietStep
      <3>k. KeyOf(Current) = Absent
        BY <2>g, <3>1 DEF Quiet, CommandTrue
      <3>d. /\ database'[Current] \in {Blank, typed}
            /\ \A p \in Profiles : Sealed(database'[p]) => database'[p] = database[p]
        BY <1>a, <1>b, <1>4, <2>g DEF Opens, Sealed, ProfileType
      <3>2. CommandTrue'
        BY <1>a, <2>n, <2>g, <2>q, <3>k, <3>d, QuietStep DEF Current, KeyOf, Opens
      <3>3. EngineHasKey' /\ KeyOpens'
        BY <1>a, <2>g, <3>1, <3>d DEF Quiet, EngineHasKey, KeyOpens, Holds, KeyOf, Sealed
      <3> QED BY <3>1, <3>2, <3>3 DEF Quiet
    <2> QED BY <2>t, <2>q DEF ProfileInv
  <1>5. ASSUME NEW c \in Copy, NEW typed \in {Typed, 0}, UnlockExisting(c, typed), ~Opens(Current, typed) PROVE ProfileInv'
    <2> DEFINE next == doing[c]
    <2>n. next \in Commands
      BY <1>a DEF ProfileType
    <2>g. Goes(c, next) /\ UNCHANGED <<keyFile, database, pointer, opened, minted>>
      BY <1>5 DEF UnlockExisting
    <2>d. doing' = doing
      BY <1>a, <2>g DEF ProfileType, Goes
    <2> HIDE DEF next
    <2>t. ProfileType'
      BY <1>a, <2>d, <2>n, <2>g, OneGoes DEF ProfileType
    <2>q. ASSUME ~overlapped' PROVE Quiet'
      <3>1. ~overlapped /\ Quiet /\ OneCommand'
        BY <1>a, <2>n, <2>g, <2>q, OneGoes, QuietStep
      <3>2. CommandTrue'
        BY <2>d, <2>g, <3>1 DEF Quiet, CommandTrue, Current, KeyOf, Opens, Holds
      <3>3. EngineHasKey' /\ KeyOpens'
        BY <1>a, <2>g, <3>1 DEF Quiet, EngineHasKey, KeyOpens, Holds, KeyOf
      <3> QED BY <3>1, <3>2, <3>3 DEF Quiet
    <2> QED BY <2>t, <2>q DEF ProfileInv
  <1>6. ASSUME NEW c \in Copy, ResetLegacy(c) PROVE ProfileInv'
    <2> DEFINE next == To("save", Current, Fresh)
    <2>f. Fresh \in Secrets /\ Fresh \in 0 .. MaxSecrets
      BY <1>6, <1>a, FreshIsSecret DEF ResetLegacy
    <2>n. /\ next \in Commands
          /\ next.at = "save" /\ next.profile = Current /\ next.secret = Fresh
      BY <1>b, <2>f, ToIsCommand
    <2>g. /\ Goes(c, next) /\ UNCHANGED <<keyFile, pointer, opened>> /\ minted' = Fresh
          /\ KeyOf(Current) = Absent /\ database' = [database EXCEPT ![Current] = Absent]
      BY <1>6 DEF ResetLegacy
    <2> HIDE DEF next
    <2>t. ProfileType'
      BY <1>a, <1>b, <2>f, <2>n, <2>g, OneGoes DEF ProfileType
    <2>q. ASSUME ~overlapped' PROVE Quiet'
      <3>1. ~overlapped /\ Quiet /\ OneCommand'
        BY <1>a, <2>n, <2>g, <2>q, OneGoes, QuietStep
      <3>d. database'[Current] = Absent /\ \A p \in Profiles : p # Current => database'[p] = database[p]
        BY <1>a, <1>b, <2>g DEF ProfileType
      <3>2. CommandTrue'
        BY <1>a, <2>n, <2>g, <2>q, <3>d, QuietStep DEF Current, KeyOf, Opens
      <3>3. EngineHasKey' /\ KeyOpens'
        BY <1>a, <1>b, <2>g, <3>1, <3>d DEF Quiet, EngineHasKey, KeyOpens, Holds, KeyOf, Sealed
      <3> QED BY <3>1, <3>2, <3>3 DEF Quiet
    <2> QED BY <2>t, <2>q DEF ProfileInv
  <1>7. ASSUME NEW c \in Copy, SaveKey(c) PROVE ProfileInv'
    <2> DEFINE next == [doing[c] EXCEPT !.at = "start"]
    <2>s. doing[c].at = "save" /\ doing[c].profile \in Profiles /\ doing[c].secret \in Secrets
      BY <1>7, <1>a DEF SaveKey, ProfileType
    <2>p. PICK p \in Profiles, s \in Secrets : p = doing[c].profile /\ s = doing[c].secret
      BY <2>s
    <2>n. /\ next \in Commands /\ next.at = "start" /\ next.profile = p /\ next.secret = s
      BY <1>a, <2>p, NextPart
    <2>g. /\ Goes(c, next) /\ UNCHANGED <<database, pointer, opened, minted>>
          /\ keyFile' = [keyFile EXCEPT ![p] = [secret |-> s, locked |-> FALSE]]
      BY <1>7, <2>p DEF SaveKey
    <2> HIDE DEF next
    <2>k. /\ keyFile' \in [Profiles -> KeyFiles] /\ Holds(p, s)'
          /\ \A r \in Profiles \ {p} : keyFile'[r] = keyFile[r]
      BY <1>a, <2>g, KeyIsWritten DEF ProfileType, Holds, KeyOf
    <2>t. ProfileType'
      BY <1>a, <2>k, <2>n, <2>g, OneGoes DEF ProfileType
    <2>q. ASSUME ~overlapped' PROVE Quiet'
      <3>1. ~overlapped /\ Quiet /\ OneCommand'
        BY <1>a, <2>n, <2>g, <2>q, OneGoes, QuietStep
      <3>k. KeyOf(p) = Absent /\ p = Current /\ Opens(p, s)
        BY <2>p, <2>s, <3>1 DEF Quiet, CommandTrue
      <3>2. CommandTrue'
        BY <1>a, <2>n, <2>g, <2>k, <2>q, <3>k, QuietStep DEF Current, Holds
      <3>3. EngineHasKey' /\ KeyOpens'
        <4>1. EngineHasKey'
          BY <2>g, <2>k, <3>1, <3>k DEF Quiet, EngineHasKey, Holds, KeyOf
        <4>2. KeyOpens'
          BY <2>g, <2>k, <2>q, <3>1, <3>k DEF Quiet, KeyOpens, Holds, KeyOf, Opens, Sealed
        <4> QED BY <4>1, <4>2
      <3> QED BY <3>1, <3>2, <3>3 DEF Quiet
    <2> QED BY <2>t, <2>q DEF ProfileInv
  <1>8. ASSUME NEW c \in Copy, StartEngine(c), opened[c] = NoEngine, Opens(Current, doing[c].secret) PROVE ProfileInv'
    <2> DEFINE next == NoCommand
    <2>s. doing[c].at = "start" /\ doing[c].profile \in Profiles /\ doing[c].secret \in Secrets
      BY <1>8, <1>a DEF StartEngine, ProfileType
    <2>p. PICK p \in Profiles, s \in Secrets : p = Current /\ s = doing[c].secret
      BY <1>b, <2>s
    <2>n. next \in Commands /\ next.at = "idle"
      BY NoneIsCommand
    <2>g. /\ Goes(c, next) /\ UNCHANGED <<keyFile, pointer, minted>>
          /\ database' = [database EXCEPT ![p] = IF @ = Absent THEN Blank ELSE @]
          /\ \/ opened' = [opened EXCEPT ![c] = [profile |-> p, secret |-> s]]
             \/ opened' = opened
      BY <1>8, <1>a, <2>p DEF StartEngine, Created, ProfileType
    <2> HIDE DEF next
    <2>o. [profile |-> p, secret |-> s] \in Engines
      BY DEF Engines
    <2>t. ProfileType'
      BY <1>a, <2>o, <2>n, <2>g, OneGoes DEF ProfileType
    <2>q. ASSUME ~overlapped' PROVE Quiet'
      <3>1. ~overlapped /\ Quiet /\ OneCommand'
        BY <1>a, <2>n, <2>g, <2>q, OneGoes, QuietStep
      <3>k. Holds(p, s)
        BY <2>p, <2>s, <3>1 DEF Quiet, CommandTrue
      <3>d. \A r \in Profiles : Sealed(database'[r]) => database'[r] = database[r]
        BY <1>a, <2>g DEF Sealed, ProfileType
      <3>o. \A o \in Copy : opened'[o] = opened[o] \/ opened'[o] = [profile |-> p, secret |-> s]
        BY <1>a, <2>g DEF ProfileType
      <3>2. CommandTrue'
        BY <1>a, <2>n, <2>g, <2>q, QuietStep
      <3>3. EngineHasKey' /\ KeyOpens'
        <4>1. EngineHasKey'
          BY <2>g, <3>1, <3>k, <3>o DEF Quiet, EngineHasKey, Holds, KeyOf
        <4>2. KeyOpens'
          BY <2>g, <2>q, <3>1, <3>d DEF Quiet, KeyOpens, KeyOf, Sealed
        <4> QED BY <4>1, <4>2
      <3> QED BY <3>1, <3>2, <3>3 DEF Quiet
    <2> QED BY <2>t, <2>q DEF ProfileInv
  <1>9. ASSUME NEW c \in Copy, StartEngine(c), ~(opened[c] = NoEngine /\ Opens(Current, doing[c].secret)) PROVE ProfileInv'
    <2> DEFINE next == NoCommand
    <2>n. next \in Commands /\ next.at = "idle"
      BY NoneIsCommand
    <2>g. Goes(c, next) /\ UNCHANGED <<keyFile, database, pointer, opened, minted>>
      BY <1>9 DEF StartEngine
    <2> HIDE DEF next
    <2>t. ProfileType'
      BY <1>a, <2>n, <2>g, OneGoes DEF ProfileType
    <2>q. ASSUME ~overlapped' PROVE Quiet'
      <3>1. ~overlapped /\ Quiet /\ OneCommand'
        BY <1>a, <2>n, <2>g, <2>q, OneGoes, QuietStep
      <3>2. CommandTrue'
        BY <1>a, <2>n, <2>g, <2>q, QuietStep
      <3>3. EngineHasKey' /\ KeyOpens'
        BY <1>a, <2>g, <3>1 DEF Quiet, EngineHasKey, KeyOpens, Holds, KeyOf
      <3> QED BY <3>1, <3>2, <3>3 DEF Quiet
    <2> QED BY <2>t, <2>q DEF ProfileInv
  <1>10. ASSUME NEW c \in Copy, Register(c) PROVE ProfileInv'
    <2> DEFINE next == NoCommand
    <2>n. next \in Commands /\ next.at = "idle"
      BY NoneIsCommand
    <2>p. PICK e : e = opened[c] /\ e # NoEngine /\ database[e.profile] = Blank
      BY <1>10 DEF Register
    <2>g. /\ Goes(c, next) /\ UNCHANGED <<keyFile, pointer, opened, minted>>
          /\ database' = [database EXCEPT ![e.profile] = e.secret]
      BY <1>10, <2>p DEF Register
    <2> HIDE DEF next
    <2>e. e.secret \in Secrets \union {Absent}
      BY <1>a, <2>p DEF ProfileType, Engines
    <2>t. ProfileType'
      BY <1>a, <2>e, <2>n, <2>g, OneGoes DEF ProfileType
    <2>q. ASSUME ~overlapped' PROVE Quiet'
      <3>1. ~overlapped /\ Quiet /\ OneCommand'
        BY <1>a, <2>n, <2>g, <2>q, OneGoes, QuietStep
      <3>k. e.profile \in Profiles /\ Holds(e.profile, e.secret)
        BY <2>p, <3>1 DEF Quiet, EngineHasKey
      <3>d. database'[e.profile] = e.secret /\ \A r \in Profiles \ {e.profile} : database'[r] = database[r]
        BY <1>a, <2>g, <3>k DEF ProfileType
      <3>2. CommandTrue'
        BY <1>a, <2>n, <2>g, <2>q, QuietStep
      <3>3. EngineHasKey' /\ KeyOpens'
        BY <1>a, <2>g, <3>1, <3>k, <3>d DEF Quiet, EngineHasKey, KeyOpens, Holds, KeyOf, Sealed
      <3> QED BY <3>1, <3>2, <3>3 DEF Quiet
    <2> QED BY <2>t, <2>q DEF ProfileInv
  <1>11. ASSUME NEW c \in Copy, NEW lock \in BOOLEAN, SetLock(c, lock) PROVE ProfileInv'
    <2> DEFINE next == [at |-> "relock", profile |-> Current, secret |-> KeyOf(Current).secret, lock |-> lock]
    <2>1. KeyOf(Current).secret \in Secrets
      BY <1>11, <1>a, <1>b, KeyHolds DEF SetLock
    <2>n. /\ next \in Commands
          /\ next.at = "relock" /\ next.profile = Current /\ next.secret = KeyOf(Current).secret
      BY <1>b, <2>1 DEF Commands
    <2>g. /\ Goes(c, next) /\ UNCHANGED <<keyFile, database, pointer, opened, minted>>
          /\ KeyOf(Current) # Absent
      BY <1>11 DEF SetLock
    <2> HIDE DEF next
    <2>t. ProfileType'
      BY <1>a, <1>b, <2>1, <2>n, <2>g, OneGoes DEF ProfileType
    <2>q. ASSUME ~overlapped' PROVE Quiet'
      <3>1. ~overlapped /\ Quiet /\ OneCommand'
        BY <1>a, <2>n, <2>g, <2>q, OneGoes, QuietStep
      <3>2. CommandTrue'
        BY <1>a, <2>n, <2>g, <2>q, QuietStep DEF Holds, Current, KeyOf
      <3>3. EngineHasKey' /\ KeyOpens'
        BY <1>a, <2>g, <3>1 DEF Quiet, EngineHasKey, KeyOpens, Holds, KeyOf
      <3> QED BY <3>1, <3>2, <3>3 DEF Quiet
    <2> QED BY <2>t, <2>q DEF ProfileInv
  <1>12. ASSUME NEW c \in Copy, WriteLock(c) PROVE ProfileInv'
    <2> DEFINE next == NoCommand
    <2>s. doing[c].at = "relock" /\ doing[c].profile \in Profiles /\ doing[c].secret \in Secrets
      BY <1>12, <1>a DEF WriteLock, ProfileType
    <2>p. PICK p \in Profiles, s \in Secrets : p = doing[c].profile /\ s = doing[c].secret
      BY <2>s
    <2>n. next \in Commands /\ next.at = "idle"
      BY NoneIsCommand
    <2>l. PICK lock \in BOOLEAN : lock = doing[c].lock
      BY <1>a DEF ProfileType, Commands
    <2>g. /\ Goes(c, next) /\ UNCHANGED <<database, pointer, opened, minted>>
          /\ keyFile' = [keyFile EXCEPT ![p] = [secret |-> s, locked |-> lock]]
      BY <1>12, <2>p, <2>l DEF WriteLock
    <2> HIDE DEF next
    <2>k. /\ keyFile' \in [Profiles -> KeyFiles] /\ Holds(p, s)'
          /\ \A r \in Profiles \ {p} : keyFile'[r] = keyFile[r]
      BY <1>a, <2>g, KeyIsWritten DEF ProfileType, Holds, KeyOf
    <2>t. ProfileType'
      BY <1>a, <2>k, <2>n, <2>g, OneGoes DEF ProfileType
    <2>q. ASSUME ~overlapped' PROVE Quiet'
      <3>1. ~overlapped /\ Quiet /\ OneCommand'
        BY <1>a, <2>n, <2>g, <2>q, OneGoes, QuietStep
      <3>k. Holds(p, s)
        BY <2>p, <2>s, <3>1 DEF Quiet, CommandTrue
      <3>2. CommandTrue'
        BY <1>a, <2>n, <2>g, <2>q, QuietStep
      <3>3. EngineHasKey' /\ KeyOpens'
        <4>1. EngineHasKey'
          BY <2>g, <2>k, <3>1, <3>k DEF Quiet, EngineHasKey, Holds, KeyOf
        <4>2. KeyOpens'
          BY <2>g, <2>k, <2>q, <3>1, <3>k DEF Quiet, KeyOpens, Holds, KeyOf, Sealed
        <4> QED BY <4>1, <4>2
      <3> QED BY <3>1, <3>2, <3>3 DEF Quiet
    <2> QED BY <2>t, <2>q DEF ProfileInv
  <1>13. ASSUME NEW c \in Copy, NEW r \in Session, Logout(c, r) PROVE ProfileInv'
    <2> DEFINE next == To("out", r, Fresh)
    <2>f. Fresh \in Secrets /\ Fresh \in 0 .. MaxSecrets
      BY <1>13, <1>a, FreshIsSecret DEF Logout
    <2>n. /\ next \in Commands
          /\ next.at = "out" /\ next.profile = r /\ next.secret = Fresh
      BY <1>b, <2>f, ToIsCommand
    <2>g. /\ Goes(c, next) /\ UNCHANGED <<keyFile, database, pointer>> /\ minted' = Fresh
          /\ opened' = [opened EXCEPT ![c] = NoEngine]
          /\ KeyOf(r) = Absent /\ database[r] = Absent
      BY <1>13 DEF Logout
    <2> HIDE DEF next
    <2>o. NoEngine \in Engines /\ \A o \in Copy : opened'[o] \in {opened[o], NoEngine}
      BY <1>a, <2>g DEF NoEngine, Engines, ProfileType
    <2>t. ProfileType'
      BY <1>a, <1>b, <2>f, <2>n, <2>g, <2>o, OneGoes DEF ProfileType
    <2>q. ASSUME ~overlapped' PROVE Quiet'
      <3>1. ~overlapped /\ Quiet /\ OneCommand'
        BY <1>a, <2>n, <2>g, <2>q, OneGoes, QuietStep
      <3>2. CommandTrue'
        BY <1>a, <2>n, <2>g, <2>q, QuietStep DEF KeyOf
      <3>3. EngineHasKey' /\ KeyOpens'
        BY <1>a, <2>g, <2>o, <3>1 DEF Quiet, EngineHasKey, KeyOpens, Holds, KeyOf
      <3> QED BY <3>1, <3>2, <3>3 DEF Quiet
    <2> QED BY <2>t, <2>q DEF ProfileInv
  <1>14. ASSUME NEW c \in Copy, LogoutKey(c) PROVE ProfileInv'
    <2> DEFINE next == [doing[c] EXCEPT !.at = "verify"]
    <2>s. doing[c].at = "out" /\ doing[c].profile \in Profiles /\ doing[c].secret \in Secrets
      BY <1>14, <1>a DEF LogoutKey, ProfileType
    <2>p. PICK p \in Profiles, s \in Secrets : p = doing[c].profile /\ s = doing[c].secret
      BY <2>s
    <2>n. /\ next \in Commands /\ next.at = "verify" /\ next.profile = p /\ next.secret = s
      BY <1>a, <2>p, NextPart
    <2>g. /\ Goes(c, next) /\ UNCHANGED <<database, pointer, opened, minted>>
          /\ keyFile' = [keyFile EXCEPT ![p] = [secret |-> s, locked |-> FALSE]]
      BY <1>14, <2>p DEF LogoutKey
    <2> HIDE DEF next
    <2>k. /\ keyFile' \in [Profiles -> KeyFiles] /\ Holds(p, s)'
          /\ \A r \in Profiles \ {p} : keyFile'[r] = keyFile[r]
      BY <1>a, <2>g, KeyIsWritten DEF ProfileType, Holds, KeyOf
    <2>t. ProfileType'
      BY <1>a, <2>k, <2>n, <2>g, OneGoes DEF ProfileType
    <2>q. ASSUME ~overlapped' PROVE Quiet'
      <3>1. ~overlapped /\ Quiet /\ OneCommand'
        BY <1>a, <2>n, <2>g, <2>q, OneGoes, QuietStep
      <3>k. p \in Session /\ KeyOf(p) = Absent /\ database[p] = Absent
        BY <2>p, <2>s, <3>1 DEF Quiet, CommandTrue
      <3>2. CommandTrue'
        BY <1>a, <2>n, <2>g, <2>k, <2>q, <3>k, QuietStep
      <3>3. EngineHasKey' /\ KeyOpens'
        <4>1. EngineHasKey'
          BY <2>g, <2>k, <3>1, <3>k DEF Quiet, EngineHasKey, Holds, KeyOf
        <4>2. KeyOpens'
          BY <2>g, <2>k, <2>q, <3>1, <3>k DEF Quiet, KeyOpens, Holds, KeyOf, Sealed
        <4> QED BY <4>1, <4>2
      <3> QED BY <3>1, <3>2, <3>3 DEF Quiet
    <2> QED BY <2>t, <2>q DEF ProfileInv
  <1>15. ASSUME NEW c \in Copy, LogoutDatabase(c) PROVE ProfileInv'
    <2> DEFINE next == [doing[c] EXCEPT !.at = "point"]
    <2>s. doing[c].at = "verify" /\ doing[c].profile \in Profiles /\ doing[c].secret \in Secrets
      BY <1>15, <1>a DEF LogoutDatabase, ProfileType
    <2>p. PICK p \in Profiles, s \in Secrets : p = doing[c].profile /\ s = doing[c].secret
      BY <2>s
    <2>n. /\ next \in Commands /\ next.at = "point" /\ next.profile = p /\ next.secret = s
      BY <1>a, <2>p, NextPart
    <2>g. /\ Goes(c, next) /\ UNCHANGED <<keyFile, pointer, opened, minted>>
          /\ database' = [database EXCEPT ![p] = IF @ = Absent THEN Blank ELSE @]
      BY <1>15, <2>p DEF LogoutDatabase, Created
    <2> HIDE DEF next
    <2>t. ProfileType'
      BY <1>a, <2>n, <2>g, OneGoes DEF ProfileType
    <2>q. ASSUME ~overlapped' PROVE Quiet'
      <3>1. ~overlapped /\ Quiet /\ OneCommand'
        BY <1>a, <2>n, <2>g, <2>q, OneGoes, QuietStep
      <3>k. p \in Session /\ Holds(p, s)
        BY <2>p, <2>s, <3>1 DEF Quiet, CommandTrue
      <3>d. \A r \in Profiles : Sealed(database'[r]) => database'[r] = database[r]
        BY <1>a, <2>g DEF Sealed, ProfileType
      <3>2. CommandTrue'
        BY <1>a, <2>n, <2>g, <2>q, <3>k, QuietStep DEF Holds, KeyOf
      <3>3. EngineHasKey' /\ KeyOpens'
        BY <1>a, <2>g, <3>1, <3>d DEF Quiet, EngineHasKey, KeyOpens, Holds, KeyOf
      <3> QED BY <3>1, <3>2, <3>3 DEF Quiet
    <2> QED BY <2>t, <2>q DEF ProfileInv
  <1>16. ASSUME NEW c \in Copy, LogoutEmpties(c) PROVE ProfileInv'
    <2> DEFINE next == [doing[c] EXCEPT !.at = "name"]
    <2>s. doing[c].at = "point" /\ doing[c].profile \in Profiles /\ doing[c].secret \in Secrets
      BY <1>16, <1>a DEF LogoutEmpties, ProfileType
    <2>p. PICK p \in Profiles, s \in Secrets : p = doing[c].profile /\ s = doing[c].secret
      BY <2>s
    <2>n. /\ next \in Commands /\ next.at = "name" /\ next.profile = p /\ next.secret = s
      BY <1>a, <2>p, NextPart
    <2>g. /\ Goes(c, next) /\ UNCHANGED <<keyFile, database, opened, minted>>
          /\ pointer' = "torn"
      BY <1>16, <2>p DEF LogoutEmpties
    <2> HIDE DEF next
    <2>t. ProfileType'
      BY <1>a, <2>n, <2>g, OneGoes DEF ProfileType
    <2>q. ASSUME ~overlapped' PROVE Quiet'
      <3>1. ~overlapped /\ Quiet /\ OneCommand'
        BY <1>a, <2>n, <2>g, <2>q, OneGoes, QuietStep
      <3>k. p \in Session /\ Holds(p, s)
        BY <2>p, <2>s, <3>1 DEF Quiet, CommandTrue
      <3>2. CommandTrue'
        BY <1>a, <2>n, <2>g, <2>q, <3>k, QuietStep DEF Holds, KeyOf, Current
      <3>3. EngineHasKey' /\ KeyOpens'
        BY <1>a, <2>g, <3>1 DEF Quiet, EngineHasKey, KeyOpens, Holds, KeyOf
      <3> QED BY <3>1, <3>2, <3>3 DEF Quiet
    <2> QED BY <2>t, <2>q DEF ProfileInv
  <1>17. ASSUME NEW c \in Copy, LogoutNames(c) PROVE ProfileInv'
    <2> DEFINE next == [doing[c] EXCEPT !.at = "start"]
    <2>s. doing[c].at = "name" /\ doing[c].profile \in Profiles /\ doing[c].secret \in Secrets
      BY <1>17, <1>a DEF LogoutNames, ProfileType
    <2>p. PICK p \in Profiles, s \in Secrets : p = doing[c].profile /\ s = doing[c].secret
      BY <2>s
    <2>n. /\ next \in Commands /\ next.at = "start" /\ next.profile = p /\ next.secret = s
      BY <1>a, <2>p, NextPart
    <2>g. /\ Goes(c, next) /\ UNCHANGED <<keyFile, database, opened, minted>>
          /\ pointer' = p
      BY <1>17, <2>p DEF LogoutNames
    <2> HIDE DEF next
    <2>t. ProfileType'
      BY <1>a, <2>n, <2>g, OneGoes DEF ProfileType
    <2>q. ASSUME ~overlapped' PROVE Quiet'
      <3>1. ~overlapped /\ Quiet /\ OneCommand'
        BY <1>a, <2>n, <2>g, <2>q, OneGoes, QuietStep
      <3>k. p \in Session /\ Holds(p, s)
        BY <2>p, <2>s, <3>1 DEF Quiet, CommandTrue
      <3>2. CommandTrue'
        BY <1>a, <2>n, <2>g, <2>q, <3>k, QuietStep DEF Holds, KeyOf, Current
      <3>3. EngineHasKey' /\ KeyOpens'
        BY <1>a, <2>g, <3>1 DEF Quiet, EngineHasKey, KeyOpens, Holds, KeyOf
      <3> QED BY <3>1, <3>2, <3>3 DEF Quiet
    <2> QED BY <2>t, <2>q DEF ProfileInv
  <1>18. ASSUME NEW c \in Copy, Kill(c) PROVE ProfileInv'
    <2>g. /\ UNCHANGED <<keyFile, database, pointer, minted, overlapped>>
          /\ opened' \in [Copy -> Engines] /\ \A o \in Copy : opened'[o] \in {opened[o], NoEngine}
          /\ doing' \in [Copy -> Commands] /\ \A o \in Copy : doing'[o] \in {doing[o], NoCommand}
      BY <1>18, <1>a, NoneIsCommand DEF Kill, ProfileType, NoEngine, Engines
    <2>t. ProfileType'
      BY <1>a, <2>g, NoneIsCommand DEF ProfileType
    <2>q. ASSUME ~overlapped' PROVE Quiet'
      <3>1. OneCommand' /\ EngineHasKey' /\ KeyOpens'
        BY <1>a, <2>g, <2>q, NoneIsCommand DEF Quiet, OneCommand, EngineHasKey, KeyOpens, Holds, KeyOf
      <3>2. CommandTrue'
        BY <1>a, <2>g, <2>q, NoneIsCommand DEF Quiet, CommandTrue, Current, Opens, Holds, KeyOf
      <3> QED BY <3>1, <3>2 DEF Quiet
    <2> QED BY <2>t, <2>q DEF ProfileInv
  <1>19. CASE UNCHANGED profileVars
    <2>1. ProfileType'
      BY <1>a, <1>19 DEF profileVars, ProfileType
    <2>2. ~overlapped' => Quiet'
      BY <1>a, <1>19 DEF profileVars, Quiet, OneCommand, EngineHasKey, CommandTrue, KeyOpens,
         Current, Opens, Holds, KeyOf
    <2> QED BY <2>1, <2>2 DEF ProfileInv
  <1> QED
    BY <1>1, <1>2, <1>3, <1>4, <1>5, <1>6, <1>7, <1>8, <1>9, <1>10, <1>11, <1>12, <1>13,
       <1>14, <1>15, <1>16, <1>17, <1>18, <1>19
    DEF ProfileNext, Opening, LoggingOut

\* However often the application is killed between two of its writes, there is
\* a key file with the secret of every sealed database, or the password of the
\* old version opens it, as long as no two copies worked at once.
THEOREM KeyOpensHolds == ProfileSpec => []KeyOpens
  <1>1. ProfileInv => KeyOpens
    BY DEF ProfileInv, Quiet, KeyOpens
  <1> QED
    BY <1>1, ProfileInitInv, ProfileStepInv, PTL DEF ProfileSpec

LEMMA OnionInitInv == OnionInit => OnionInv
  BY DEF OnionInit, OnionInv, OnionType, HandedOver, Resting, Alive, Tor

LEMMA OnionStepInv == OnionInv /\ [OnionNext]_onionVars => OnionInv'
  <1> SUFFICES ASSUME OnionInv, [OnionNext]_onionVars PROVE OnionInv'
    OBVIOUS
  <1>a. OnionType /\ (~crossed => HandedOver) /\ 0 \notin Tor
    BY DEF OnionInv, Tor
  <1> USE DEF OnionInv, OnionType, HandedOver, Alive, Resting
  <1>1. CASE StartTor
    BY <1>a, <1>1 DEF StartTor, Gone
  <1>2. CASE NotInstalled
    BY <1>a, <1>2 DEF NotInstalled
  <1>3. CASE Announce
    BY <1>a, <1>3 DEF Announce
  <1>4. CASE HandOver
    BY <1>a, <1>4 DEF HandOver
  <1>5. CASE GivesUp
    BY <1>a, <1>5 DEF GivesUp
  <1>6. CASE Status
    BY <1>a, <1>6 DEF Status, Gone
  <1>7. CASE Stop
    BY <1>a, <1>7 DEF Stop
  <1>8. CASE InstallVerified \/ Installs
    BY <1>a, <1>8 DEF InstallVerified, Installs
  <1>9. CASE Exit
    BY <1>a, <1>9 DEF Exit
  <1>10. ASSUME NEW t \in Tor, Spawn(t) PROVE OnionInv'
    BY <1>a, <1>10 DEF Spawn
  <1>11. ASSUME NEW t \in Tor, Listens(t) \/ Dies(t) PROVE OnionInv'
    BY <1>a, <1>11 DEF Listens, Dies
  <1>12. CASE UNCHANGED onionVars
    BY <1>a, <1>12 DEF onionVars
  <1> QED
    BY <1>1, <1>2, <1>3, <1>4, <1>5, <1>6, <1>7, <1>8, <1>9, <1>10, <1>11, <1>12 DEF OnionNext

\* Every Tor process that lives is the one that runs or the one being started,
\* and so is the one whose address the engine is given, unless a stop fell
\* between the two lines that publish a process.
THEOREM TorOwnedHolds == OnionSpec => []TorOwned
  <1>1. OnionInv => TorOwned
    BY DEF OnionInv, OnionType, HandedOver, TorOwned
  <1> QED
    BY <1>1, OnionInitInv, OnionStepInv, PTL DEF OnionSpec

-----------------------------------------------------------------------------
(* The phases of an engine                                                    *)

Phases == {"off", "idle", "opening", "shaking", "up", "waiting"}
CoreRecord == [phase : Phases, entry : {"none", "invite", "existing"},
               began : {"none", "invite", "existing"}, mem : Nat, line : {"none", "asked", "ok", "no"}]

EngineType ==
    /\ owner \in Core \union {Nobody} /\ mine \in BOOLEAN /\ gen \in Nat
    /\ archive \in Nat \union {Nobody}
    /\ core \in [Core -> CoreRecord]
    /\ known \in BOOLEAN /\ spent \in BOOLEAN /\ late \in SUBSET {"none", "invite", "existing"}
    /\ used \in SUBSET Nat /\ twice \in BOOLEAN /\ older \in BOOLEAN
    /\ refused \in SUBSET {"none", "invite", "existing"} /\ ends \in Nat

\* Only the process with the lock runs an engine, and an AUTH is answered only
\* on the connection that shakes hands.
OneEngine ==
    \A e \in Core :
        /\ core[e].phase # "off" => owner = e
        /\ core[e].line # "none" => core[e].phase = "shaking"

\* Nothing was encrypted beyond the stored ratchet, and the one in the memory of
\* a connected session is the stored one.
RatchetInv ==
    ~older => /\ ~twice
              /\ \A g \in used : g <= gen
              /\ archive # Nobody => archive <= gen
              /\ \A e \in Core : core[e].phase = "up" => core[e].mem = gen

\* The invite is used by the registration of this device only, and a session
\* keeps it until that has happened.
InviteInv ==
    /\ spent => known
    /\ "invite" \notin refused
    /\ \A e \in Core :
        /\ core[e].phase = "up" \/ core[e].line = "ok" => known
        /\ core[e].began = "invite" => core[e].entry = "invite" \/ known
        /\ core[e].began = "invite" => core[e].line # "no"

EngineInv == EngineType /\ OneEngine /\ RatchetInv /\ InviteInv

LEMMA EngineInitInv == EngineInit => EngineInv
  <1> SUFFICES ASSUME EngineInit PROVE EngineInv
    OBVIOUS
  <1>1. core \in [Core -> CoreRecord] /\ \A e \in Core : core[e] = Off
    BY DEF EngineInit, Off, CoreRecord, Phases
  <1>2. EngineType
    BY <1>1 DEF EngineInit, EngineType
  <1>3. OneEngine /\ RatchetInv /\ InviteInv
    BY <1>1, EngineAssumption DEF EngineInit, Off, OneEngine, RatchetInv, InviteInv
  <1> QED
    BY <1>2, <1>3 DEF EngineInv

\* What an action does to the process that takes it, and to the others.
LEMMA OneBecomes ==
  ASSUME NEW e \in Core, NEW c \in CoreRecord, core \in [Core -> CoreRecord], Becomes(e, c)
  PROVE  /\ core' \in [Core -> CoreRecord] /\ core'[e] = c
         /\ \A x \in Core : x # e => core'[x] = core[x]
  BY DEF Becomes

LEMMA CoreTypes ==
  ASSUME NEW e \in Core, core \in [Core -> CoreRecord]
  PROVE  /\ core[e] \in CoreRecord /\ core[e].mem \in Nat
         /\ core[e].entry \in {"none", "invite", "existing"}
         /\ core[e].began \in {"none", "invite", "existing"}
  BY DEF CoreRecord

LEMMA EngineStepInv == EngineInv /\ [EngineNext]_engineVars => EngineInv'
  <1> SUFFICES ASSUME EngineInv, [EngineNext]_engineVars PROVE EngineInv'
    OBVIOUS
  <1>a. EngineType /\ OneEngine /\ RatchetInv /\ InviteInv
    BY DEF EngineInv
  <1>b. core \in [Core -> CoreRecord]
    BY <1>a DEF EngineType
  <1>1. ASSUME NEW e \in Core, OpenEngine(e) PROVE EngineInv'
    <2> DEFINE c == AtRest
    <2>1. core[e] \in CoreRecord /\ gen \in Nat
      BY <1>a, <1>b, CoreTypes DEF EngineType
    <2>2. /\ c \in CoreRecord
          /\ c.phase = "idle" /\ c.entry = "none" /\ c.began = "none"
          /\ c.mem = 0 /\ c.line = "none"
      BY <2>1 DEF CoreRecord, Phases, AtRest, Off
    <2>3. Becomes(e, c)
      BY <1>1 DEF OpenEngine
    <2> HIDE DEF c
    <2>4. /\ core' \in [Core -> CoreRecord] /\ core'[e] = c
          /\ \A x \in Core : x # e => core'[x] = core[x]
      BY <1>b, <2>2, <2>3, OneBecomes
    <2>5. EngineType'
      BY <1>1, <1>a, <1>b, <2>4, CoreTypes DEF OpenEngine, Acquire, Phase, server, record, EngineType
    <2>6. OneEngine'
      BY <1>1, <1>a, <2>2, <2>4, EngineAssumption DEF OpenEngine, Acquire, Phase, server, record, OneEngine
    <2>7. RatchetInv'
      BY <1>1, <1>a, <1>b, <2>2, <2>4, CoreTypes, EngineAssumption
         DEF OpenEngine, Acquire, Phase, server, record, EngineType, OneEngine, RatchetInv
    <2>8. InviteInv'
      BY <1>1, <1>a, <2>2, <2>4 DEF OpenEngine, Acquire, Phase, server, record, EngineType, InviteInv
    <2> QED
      BY <2>5, <2>6, <2>7, <2>8 DEF EngineInv
  <1>2. ASSUME NEW e \in Core, EndEngine(e) PROVE EngineInv'
    <2> DEFINE c == Off
    <2>1. core[e] \in CoreRecord /\ gen \in Nat
      BY <1>a, <1>b, CoreTypes DEF EngineType
    <2>2. /\ c \in CoreRecord
          /\ c.phase = "off" /\ c.entry = "none" /\ c.began = "none"
          /\ c.mem = 0 /\ c.line = "none"
      BY <2>1 DEF CoreRecord, Phases, Off
    <2>3. Becomes(e, c)
      BY <1>2 DEF EndEngine
    <2> HIDE DEF c
    <2>4. /\ core' \in [Core -> CoreRecord] /\ core'[e] = c
          /\ \A x \in Core : x # e => core'[x] = core[x]
      BY <1>b, <2>2, <2>3, OneBecomes
    <2>a. late' \in SUBSET {"none", "invite", "existing"}
      BY <1>2, <1>a, <1>b, CoreTypes DEF EndEngine, GivenUp, EngineType
    <2>b. ends' \in Nat
      BY <1>2, <1>a DEF EndEngine, EngineType
    <2>5. EngineType'
      BY <1>2, <1>a, <2>4, <2>a, <2>b DEF EndEngine, EngineType
    <2>6. OneEngine'
      BY <1>2, <1>a, <2>2, <2>4, EngineAssumption DEF EndEngine, Phase, GivenUp, OneEngine
    <2>7. RatchetInv'
      BY <1>2, <1>a, <1>b, <2>2, <2>4, CoreTypes, EngineAssumption
         DEF EndEngine, Phase, GivenUp, EngineType, OneEngine, RatchetInv
    <2>8. InviteInv'
      BY <1>2, <1>a, <2>2, <2>4 DEF EndEngine, Phase, GivenUp, EngineType, InviteInv
    <2> QED
      BY <2>5, <2>6, <2>7, <2>8 DEF EngineInv
  <1>3. ASSUME NEW e \in Core, NEW entry \in {"invite", "existing"}, Begin(e, entry) PROVE EngineInv'
    <2> DEFINE c == [phase |-> "opening", entry |-> entry, began |-> entry, mem |-> gen, line |-> "none"]
    <2>1. core[e] \in CoreRecord /\ gen \in Nat
      BY <1>a, <1>b, CoreTypes DEF EngineType
    <2>2. /\ c \in CoreRecord
          /\ c.phase = "opening" /\ c.entry = entry /\ c.began = entry
          /\ c.mem = gen /\ c.line = "none"
      BY <2>1 DEF CoreRecord, Phases
    <2>3. Becomes(e, c)
      BY <1>3 DEF Begin
    <2> HIDE DEF c
    <2>4. /\ core' \in [Core -> CoreRecord] /\ core'[e] = c
          /\ \A x \in Core : x # e => core'[x] = core[x]
      BY <1>b, <2>2, <2>3, OneBecomes
    <2>5. EngineType'
      BY <1>3, <1>a, <1>b, <2>4, CoreTypes DEF Begin, LoadOrCreate, Phase, server, record, EngineType
    <2>6. OneEngine'
      BY <1>3, <1>a, <2>2, <2>4, EngineAssumption DEF Begin, LoadOrCreate, Phase, server, record, OneEngine
    <2>7. RatchetInv'
      BY <1>3, <1>a, <1>b, <2>2, <2>4, CoreTypes, EngineAssumption
         DEF Begin, LoadOrCreate, Phase, server, record, EngineType, OneEngine, RatchetInv
    <2>8. InviteInv'
      BY <1>3, <1>a, <2>2, <2>4 DEF Begin, LoadOrCreate, Phase, server, record, EngineType, InviteInv
    <2> QED
      BY <2>5, <2>6, <2>7, <2>8 DEF EngineInv
  <1>4. ASSUME NEW e \in Core, Hello(e) PROVE EngineInv'
    <2> DEFINE c == [core[e] EXCEPT !.phase = "shaking", !.line = "asked"]
    <2>1. core[e] \in CoreRecord /\ gen \in Nat
      BY <1>a, <1>b, CoreTypes DEF EngineType
    <2>2. /\ c \in CoreRecord
          /\ c.phase = "shaking" /\ c.entry = core[e].entry /\ c.began = core[e].began
          /\ c.mem = core[e].mem /\ c.line = "asked"
      BY <2>1 DEF CoreRecord, Phases
    <2>3. Becomes(e, c)
      BY <1>4 DEF Hello
    <2> HIDE DEF c
    <2>4. /\ core' \in [Core -> CoreRecord] /\ core'[e] = c
          /\ \A x \in Core : x # e => core'[x] = core[x]
      BY <1>b, <2>2, <2>3, OneBecomes
    <2>5. EngineType'
      BY <1>4, <1>a, <1>b, <2>4, CoreTypes DEF Hello, Phase, diskVars, server, record, EngineType
    <2>6. OneEngine'
      BY <1>4, <1>a, <2>2, <2>4, EngineAssumption DEF Hello, Phase, diskVars, server, record, OneEngine
    <2>7. RatchetInv'
      BY <1>4, <1>a, <1>b, <2>2, <2>4, CoreTypes, EngineAssumption
         DEF Hello, Phase, diskVars, server, record, EngineType, OneEngine, RatchetInv
    <2>8. InviteInv'
      BY <1>4, <1>a, <2>2, <2>4 DEF Hello, Phase, diskVars, server, record, EngineType, InviteInv
    <2> QED
      BY <2>5, <2>6, <2>7, <2>8 DEF EngineInv
  <1>5. ASSUME NEW e \in Core, OnAuthOf(e) PROVE EngineInv'
    <2> DEFINE c == [core[e] EXCEPT !.line = IF Admits(core[e].entry) THEN "ok" ELSE "no"]
    <2>1. core[e] \in CoreRecord /\ gen \in Nat
      BY <1>a, <1>b, CoreTypes DEF EngineType
    <2>2. /\ c \in CoreRecord
          /\ c.phase = core[e].phase /\ c.entry = core[e].entry /\ c.began = core[e].began
          /\ c.mem = core[e].mem /\ c.line = (IF Admits(core[e].entry) THEN "ok" ELSE "no")
      BY <2>1 DEF CoreRecord, Phases, Admits
    <2>3. Becomes(e, c)
      BY <1>5 DEF OnAuthOf
    <2> HIDE DEF c
    <2>4. /\ core' \in [Core -> CoreRecord] /\ core'[e] = c
          /\ \A x \in Core : x # e => core'[x] = core[x]
      BY <1>b, <2>2, <2>3, OneBecomes
    <2>5. EngineType'
      BY <1>5, <1>a, <1>b, <2>4, CoreTypes DEF OnAuthOf, Registers, Admits, diskVars, record, EngineType
    <2>6. OneEngine'
      BY <1>5, <1>a, <2>2, <2>4, EngineAssumption DEF OnAuthOf, Registers, Admits, diskVars, record, OneEngine
    <2>7. RatchetInv'
      BY <1>5, <1>a, <1>b, <2>2, <2>4, CoreTypes, EngineAssumption
         DEF OnAuthOf, Registers, Admits, diskVars, record, EngineType, OneEngine, RatchetInv
    <2>8. InviteInv'
      BY <1>5, <1>a, <2>2, <2>4, ZenonT(60) DEF OnAuthOf, Registers, Admits, diskVars, record, EngineType, InviteInv
    <2> QED
      BY <2>5, <2>6, <2>7, <2>8 DEF EngineInv
  <1>6. ASSUME NEW e \in Core, AuthOk(e) PROVE EngineInv'
    <2> DEFINE c == [core[e] EXCEPT !.phase = "up", !.line = "none", !.mem = gen]
    <2>1. core[e] \in CoreRecord /\ gen \in Nat
      BY <1>a, <1>b, CoreTypes DEF EngineType
    <2>2. /\ c \in CoreRecord
          /\ c.phase = "up" /\ c.entry = core[e].entry /\ c.began = core[e].began
          /\ c.mem = gen /\ c.line = "none"
      BY <2>1 DEF CoreRecord, Phases
    <2>3. Becomes(e, c)
      BY <1>6 DEF AuthOk, Established
    <2> HIDE DEF c
    <2>4. /\ core' \in [Core -> CoreRecord] /\ core'[e] = c
          /\ \A x \in Core : x # e => core'[x] = core[x]
      BY <1>b, <2>2, <2>3, OneBecomes
    <2>5. EngineType'
      BY <1>6, <1>a, <1>b, <2>4, CoreTypes DEF AuthOk, diskVars, server, record, EngineType
    <2>6. OneEngine'
      BY <1>6, <1>a, <2>2, <2>4, EngineAssumption DEF AuthOk, diskVars, server, record, OneEngine
    <2>7. RatchetInv'
      BY <1>6, <1>a, <1>b, <2>2, <2>4, CoreTypes, EngineAssumption
         DEF AuthOk, diskVars, server, record, EngineType, OneEngine, RatchetInv
    <2>8. InviteInv'
      BY <1>6, <1>a, <2>2, <2>4 DEF AuthOk, diskVars, server, record, EngineType, InviteInv
    <2> QED
      BY <2>5, <2>6, <2>7, <2>8 DEF EngineInv
  <1>7. ASSUME NEW e \in Core, AuthErr(e) PROVE EngineInv'
    <2> DEFINE c == AtRest
    <2>1. core[e] \in CoreRecord /\ gen \in Nat
      BY <1>a, <1>b, CoreTypes DEF EngineType
    <2>2. /\ c \in CoreRecord
          /\ c.phase = "idle" /\ c.entry = "none" /\ c.began = "none"
          /\ c.mem = 0 /\ c.line = "none"
      BY <2>1 DEF CoreRecord, Phases, AtRest, Off
    <2>3. Becomes(e, c)
      BY <1>7 DEF AuthErr
    <2> HIDE DEF c
    <2>4. /\ core' \in [Core -> CoreRecord] /\ core'[e] = c
          /\ \A x \in Core : x # e => core'[x] = core[x]
      BY <1>b, <2>2, <2>3, OneBecomes
    <2>5. EngineType'
      BY <1>7, <1>a, <1>b, <2>4, CoreTypes DEF AuthErr, diskVars, EngineType
    <2>6. OneEngine'
      BY <1>7, <1>a, <2>2, <2>4, EngineAssumption DEF AuthErr, diskVars, OneEngine
    <2>7. RatchetInv'
      BY <1>7, <1>a, <1>b, <2>2, <2>4, CoreTypes, EngineAssumption
         DEF AuthErr, diskVars, EngineType, OneEngine, RatchetInv
    <2>8. InviteInv'
      BY <1>7, <1>a, <2>2, <2>4 DEF AuthErr, diskVars, EngineType, InviteInv
    <2> QED
      BY <2>5, <2>6, <2>7, <2>8 DEF EngineInv
  <1>8. ASSUME NEW e \in Core, AttemptFails(e) \/ ConnectionBreaks(e) PROVE EngineInv'
    <2> DEFINE c == Waiting(e)
    <2>1. core[e] \in CoreRecord /\ gen \in Nat
      BY <1>a, <1>b, CoreTypes DEF EngineType
    <2>2. /\ c \in CoreRecord
          /\ c.phase = "waiting" /\ c.entry = (IF core[e].phase = "up" THEN "existing" ELSE core[e].entry) /\ c.began = core[e].began
          /\ c.mem = core[e].mem /\ c.line = "none"
      BY <2>1 DEF CoreRecord, Phases, Waiting
    <2>3. Becomes(e, c)
      BY <1>8 DEF AttemptFails, ConnectionBreaks, TriesAgain
    <2> HIDE DEF c
    <2>4. /\ core' \in [Core -> CoreRecord] /\ core'[e] = c
          /\ \A x \in Core : x # e => core'[x] = core[x]
      BY <1>b, <2>2, <2>3, OneBecomes
    <2>5. EngineType'
      BY <1>8, <1>a, <1>b, <2>4, CoreTypes DEF AttemptFails, ConnectionBreaks, TriesAgain, GivenUp, Phase, diskVars, record, EngineType
    <2>6. OneEngine'
      BY <1>8, <1>a, <2>2, <2>4, EngineAssumption DEF AttemptFails, ConnectionBreaks, TriesAgain, GivenUp, Phase, diskVars, record, OneEngine
    <2>7. RatchetInv'
      BY <1>8, <1>a, <1>b, <2>2, <2>4, CoreTypes, EngineAssumption, ZenonT(60)
         DEF AttemptFails, ConnectionBreaks, TriesAgain, GivenUp, Phase, diskVars, record, EngineType, OneEngine, RatchetInv
    <2>8. InviteInv'
      BY <1>8, <1>a, <2>2, <2>4 DEF AttemptFails, ConnectionBreaks, TriesAgain, GivenUp, Phase, diskVars, record, EngineType, InviteInv
    <2> QED
      BY <2>5, <2>6, <2>7, <2>8 DEF EngineInv
  <1>9. ASSUME NEW e \in Core, Retry(e) PROVE EngineInv'
    <2> DEFINE c == [core[e] EXCEPT !.phase = "opening", !.mem = gen]
    <2>1. core[e] \in CoreRecord /\ gen \in Nat
      BY <1>a, <1>b, CoreTypes DEF EngineType
    <2>2. /\ c \in CoreRecord
          /\ c.phase = "opening" /\ c.entry = core[e].entry /\ c.began = core[e].began
          /\ c.mem = gen /\ c.line = core[e].line
      BY <2>1 DEF CoreRecord, Phases
    <2>3. Becomes(e, c)
      BY <1>9 DEF Retry
    <2> HIDE DEF c
    <2>4. /\ core' \in [Core -> CoreRecord] /\ core'[e] = c
          /\ \A x \in Core : x # e => core'[x] = core[x]
      BY <1>b, <2>2, <2>3, OneBecomes
    <2>5. EngineType'
      BY <1>9, <1>a, <1>b, <2>4, CoreTypes DEF Retry, Phase, diskVars, server, record, EngineType
    <2>6. OneEngine'
      BY <1>9, <1>a, <2>2, <2>4, EngineAssumption DEF Retry, Phase, diskVars, server, record, OneEngine
    <2>7. RatchetInv'
      BY <1>9, <1>a, <1>b, <2>2, <2>4, CoreTypes, EngineAssumption
         DEF Retry, Phase, diskVars, server, record, EngineType, OneEngine, RatchetInv
    <2>8. InviteInv'
      BY <1>9, <1>a, <2>2, <2>4 DEF Retry, Phase, diskVars, server, record, EngineType, InviteInv
    <2> QED
      BY <2>5, <2>6, <2>7, <2>8 DEF EngineInv
  <1>10. ASSUME NEW e \in Core, CloseAttempt(e) \/ CloseConnection(e) \/ ClosePause(e) PROVE EngineInv'
    <2> DEFINE c == AtRest
    <2>1. core[e] \in CoreRecord /\ gen \in Nat
      BY <1>a, <1>b, CoreTypes DEF EngineType
    <2>2. /\ c \in CoreRecord
          /\ c.phase = "idle" /\ c.entry = "none" /\ c.began = "none"
          /\ c.mem = 0 /\ c.line = "none"
      BY <2>1 DEF CoreRecord, Phases, AtRest, Off
    <2>3. Becomes(e, c)
      BY <1>10 DEF CloseAttempt, CloseConnection, ClosePause, Closed
    <2> HIDE DEF c
    <2>4. /\ core' \in [Core -> CoreRecord] /\ core'[e] = c
          /\ \A x \in Core : x # e => core'[x] = core[x]
      BY <1>b, <2>2, <2>3, OneBecomes
    <2>5. EngineType'
      BY <1>10, <1>a, <1>b, <2>4, CoreTypes DEF CloseAttempt, CloseConnection, ClosePause, Closed, GivenUp, Phase, diskVars, record, EngineType
    <2>6. OneEngine'
      BY <1>10, <1>a, <2>2, <2>4, EngineAssumption DEF CloseAttempt, CloseConnection, ClosePause, Closed, GivenUp, Phase, diskVars, record, OneEngine
    <2>7. RatchetInv'
      BY <1>10, <1>a, <1>b, <2>2, <2>4, CoreTypes, EngineAssumption
         DEF CloseAttempt, CloseConnection, ClosePause, Closed, GivenUp, Phase, diskVars, record, EngineType, OneEngine, RatchetInv
    <2>8. InviteInv'
      BY <1>10, <1>a, <2>2, <2>4 DEF CloseAttempt, CloseConnection, ClosePause, Closed, GivenUp, Phase, diskVars, record, EngineType, InviteInv
    <2> QED
      BY <2>5, <2>6, <2>7, <2>8 DEF EngineInv
  <1>11. ASSUME NEW e \in Core, QueueOffline(e) PROVE EngineInv'
    <2>1. EngineType'
      BY <1>11, <1>a DEF QueueOffline, Apart, Phase, Encrypts, server, EngineType
    <2>2. OneEngine'
      BY <1>11, <1>a DEF QueueOffline, Apart, Phase, Encrypts, server, OneEngine
    <2>3. RatchetInv'
      BY <1>11, <1>a, EngineAssumption DEF QueueOffline, Apart, Phase, Encrypts, server, EngineType, OneEngine, RatchetInv
    <2>4. InviteInv'
      BY <1>11, <1>a DEF QueueOffline, Apart, Phase, Encrypts, server, EngineType, InviteInv
    <2> QED
      BY <2>1, <2>2, <2>3, <2>4 DEF EngineInv
  <1>12. ASSUME NEW e \in Core, QueueOnline(e) PROVE EngineInv'
    <2> DEFINE c == [core[e] EXCEPT !.mem = @ + 1]
    <2>1. core[e] \in CoreRecord /\ gen \in Nat
      BY <1>a, <1>b, CoreTypes DEF EngineType
    <2>2. /\ c \in CoreRecord
          /\ c.phase = core[e].phase /\ c.entry = core[e].entry /\ c.began = core[e].began
          /\ c.mem = core[e].mem + 1 /\ c.line = core[e].line
      BY <2>1 DEF CoreRecord, Phases
    <2>3. Becomes(e, c)
      BY <1>12 DEF QueueOnline
    <2> HIDE DEF c
    <2>4. /\ core' \in [Core -> CoreRecord] /\ core'[e] = c
          /\ \A x \in Core : x # e => core'[x] = core[x]
      BY <1>b, <2>2, <2>3, OneBecomes
    <2>5. EngineType'
      BY <1>12, <1>a, <1>b, <2>4, CoreTypes DEF QueueOnline, Phase, Encrypts, server, EngineType
    <2>6. OneEngine'
      BY <1>12, <1>a, <2>2, <2>4, EngineAssumption DEF QueueOnline, Phase, Encrypts, server, OneEngine
    <2>7. RatchetInv'
      BY <1>12, <1>a, <1>b, <2>2, <2>4, CoreTypes, EngineAssumption
         DEF QueueOnline, Phase, Encrypts, server, EngineType, OneEngine, RatchetInv
    <2>8. InviteInv'
      BY <1>12, <1>a, <2>2, <2>4 DEF QueueOnline, Phase, Encrypts, server, EngineType, InviteInv
    <2> QED
      BY <2>5, <2>6, <2>7, <2>8 DEF EngineInv
  <1>13. ASSUME NEW e \in Core, Export(e) PROVE EngineInv'
    <2>1. EngineType'
      BY <1>13, <1>a DEF Export, Phase, server, record, EngineType
    <2>2. OneEngine'
      BY <1>13, <1>a DEF Export, Phase, server, record, OneEngine
    <2>3. RatchetInv'
      BY <1>13, <1>a, EngineAssumption DEF Export, Phase, server, record, EngineType, OneEngine, RatchetInv
    <2>4. InviteInv'
      BY <1>13, <1>a DEF Export, Phase, server, record, EngineType, InviteInv
    <2> QED
      BY <2>1, <2>2, <2>3, <2>4 DEF EngineInv
  <1>14. ASSUME NEW e \in Core, Import(e) PROVE EngineInv'
    <2>1. EngineType'
      BY <1>14, <1>a DEF Import, Phase, server, EngineType
    <2>2. OneEngine'
      BY <1>14, <1>a DEF Import, Phase, server, OneEngine
    <2>a. archive \in Nat /\ gen \in Nat
      BY <1>14, <1>a DEF Import, EngineType
    <2>b. ASSUME archive < gen PROVE older'
      BY <1>14, <2>b DEF Import
    <2>c. ASSUME ~(archive < gen), ~older
          PROVE  gen' = gen /\ archive' = archive /\ core' = core /\ used' = used /\ twice' = twice
      <3>1. archive <= gen
        BY <1>14, <1>a, <2>c DEF Import, RatchetInv
      <3> QED
        BY <1>14, <2>a, <2>c, <3>1 DEF Import
    <2>d. older => older'
      BY <1>14 DEF Import
    <2>3. RatchetInv'
      BY <1>a, <2>b, <2>c, <2>d DEF RatchetInv
    <2>4. InviteInv'
      BY <1>14, <1>a DEF Import, Phase, server, EngineType, InviteInv
    <2> QED
      BY <2>1, <2>2, <2>3, <2>4 DEF EngineInv
  <1>15. ASSUME NEW entry \in late, OnLateAuth(entry) PROVE EngineInv'
    <2>1. EngineType'
      BY <1>15, <1>a DEF OnLateAuth, Registers, Admits, diskVars, record, EngineType
    <2>2. OneEngine'
      BY <1>15, <1>a DEF OnLateAuth, Registers, Admits, diskVars, record, OneEngine
    <2>3. RatchetInv'
      BY <1>15, <1>a, EngineAssumption DEF OnLateAuth, Registers, Admits, diskVars, record, EngineType, OneEngine, RatchetInv
    <2>4. InviteInv'
      BY <1>15, <1>a DEF OnLateAuth, Registers, Admits, diskVars, record, EngineType, InviteInv
    <2> QED
      BY <2>1, <2>2, <2>3, <2>4 DEF EngineInv
  <1>16. ASSUME UNCHANGED engineVars PROVE EngineInv'
    <2>1. EngineType'
      BY <1>16, <1>a DEF engineVars, diskVars, server, record, EngineType
    <2>2. OneEngine'
      BY <1>16, <1>a DEF engineVars, diskVars, server, record, OneEngine
    <2>3. RatchetInv'
      BY <1>16, <1>a, EngineAssumption DEF engineVars, diskVars, server, record, EngineType, OneEngine, RatchetInv
    <2>4. InviteInv'
      BY <1>16, <1>a DEF engineVars, diskVars, server, record, EngineType, InviteInv
    <2> QED
      BY <2>1, <2>2, <2>3, <2>4 DEF EngineInv
  <1> QED
    BY <1>1, <1>2, <1>3, <1>4, <1>5, <1>6, <1>7, <1>8, <1>9, <1>10, <1>11, <1>12, <1>13, <1>14,
       <1>15, <1>16 DEF EngineNext

\* The invariant holds in every reachable state.
THEOREM EngineInvariant == EngineSpec => []EngineInv
  <1>1. EngineInit => EngineInv
    BY EngineInitInv
  <1>2. EngineInv /\ [EngineNext]_engineVars => EngineInv'
    BY EngineStepInv
  <1> QED
    BY <1>1, <1>2, PTL DEF EngineSpec

\* No two messages are encrypted with one key of the sending ratchet, unless
\* an older archive was imported (queue_offline and queue_private_message).
THEOREM RatchetOnceHolds == EngineSpec => []RatchetOnce
  <1>1. EngineInv => RatchetOnce
    BY DEF EngineInv, EngineType, RatchetInv, RatchetOnce
  <1> QED
    BY <1>1, EngineInvariant, PTL

\* A session that was begun with a good invite is never refused for want of an
\* entry (session of client.rs, admit of session.ts).
THEOREM NeverTurnedAwayHolds == EngineSpec => []NeverTurnedAway
  <1>1. EngineInv => NeverTurnedAway
    BY DEF EngineInv, InviteInv, NeverTurnedAway
  <1> QED
    BY <1>1, EngineInvariant, PTL

-----------------------------------------------------------------------------
(* The door: frames that wait at the relay, and what they will have made of  *)
(* its passes once they are read.                                            *)

PassFrame == [op : {"create", "revoke"}, pass : Nat]
SetFrame == [op : {"set"}, policy : Policy, due : SUBSET Nat]
Frame == PassFrame \union SetFrame
Gift == [to : Peer, pass : Nat]

\* Frame i of fs makes (op "create") or takes back ("revoke") pass q.
Tells(fs, i, op, q) == i \in DOMAIN fs /\ fs[i].op = op /\ fs[i].pass = q

\* The relay honours q once it has read fs; it honours q no longer then.
Honoured(q, fs, ps) ==
    /\ q \in ps \/ \E i \in DOMAIN fs : Tells(fs, i, "create", q)
    /\ \A i \in DOMAIN fs : ~Tells(fs, i, "revoke", q)
Withdrawn(q, fs, ps) ==
    q \in ps \/ (\E i \in DOMAIN fs : Tells(fs, i, "create", q)) =>
    \E j \in DOMAIN fs : Tells(fs, j, "revoke", q) /\ \A i \in DOMAIN fs : Tells(fs, i, "create", q) => i < j

DoorTypes ==
    /\ standing \in [Peer -> Standing] /\ scope \in Scope /\ policy \in Policy /\ dm \in Policy
    /\ made \in 0 .. MaxMade /\ online \in BOOLEAN
    /\ granted \in [Peer -> 0 .. made] /\ keeps \in [Peer -> 0 .. made]
    /\ queue \in Seq(Gift) /\ box \in [Peer -> Seq(Nat)] /\ frames \in Seq(Frame)
    /\ \A i \in DOMAIN queue : queue[i].pass \in 1 .. made
    /\ \A p \in Peer : \A i \in DOMAIN box[p] : box[p][i] \in 1 .. made
    /\ \A i \in DOMAIN frames : frames[i].op # "set" => frames[i].pass \in 1 .. made
    /\ passes \subseteq 1 .. made /\ broken \subseteq 1 .. made
    /\ Cardinality(passes) <= MaxPasses

\* Each peer reads its gifts in the order they were made.
InTurn ==
    /\ \A i, j \in DOMAIN queue : i < j => queue[i].pass < queue[j].pass
    /\ \A p \in Peer :
        /\ \A i, j \in DOMAIN box[p] : i < j => box[p][i] < box[p][j]
        /\ \A i \in DOMAIN box[p] : keeps[p] < box[p][i]
        /\ \A i \in DOMAIN queue : queue[i].to = p =>
              keeps[p] < queue[i].pass /\ \A j \in DOMAIN box[p] : box[p][j] < queue[i].pass

Given(q, p) ==
    \/ keeps[p] = q
    \/ \E i \in DOMAIN box[p] : box[p][i] = q
    \/ \E i \in DOMAIN queue : queue[i].to = p /\ queue[i].pass = q

InBook(p) ==
    /\ granted[p] \notin {0} \union broken =>
          Given(granted[p], p) /\ Honoured(granted[p], frames, passes)
    /\ granted[p] # 0 => \A q \in 1 .. made : Given(q, p) => q <= granted[p]
    /\ \A q \in 1 .. made : Given(q, p) /\ q \notin {granted[p]} \union broken => Withdrawn(q, frames, passes)
    /\ \A r \in Peer : p # r /\ granted[p] # 0 => granted[p] # granted[r]
BookInv == \A p \in Peer : InBook(p)

\* What a policy on its way must not shut out is made before it and not taken back.
Kept(fs, ps, br, i, d) ==
    d \in br \/ /\ d \in ps \/ \E j \in DOMAIN fs : j < i /\ Tells(fs, j, "create", d)
                /\ \A j \in DOMAIN fs : Tells(fs, j, "revoke", d) => i < j
SetsInv == \A i \in DOMAIN frames : frames[i].op = "set" => \A d \in frames[i].due : Kept(frames, passes, broken, i, d)

DoorInv == DoorTypes /\ InTurn /\ BookInv /\ SetsInv

\* What RemoveAt leaves.
LEMMA RemoveAtElements ==
  ASSUME NEW S, NEW s \in Seq(S), NEW i \in DOMAIN s
  PROVE  /\ RemoveAt(s, i) \in Seq(S)
         /\ Len(RemoveAt(s, i)) = Len(s) - 1
         /\ DOMAIN RemoveAt(s, i) = 1 .. Len(s) - 1
         /\ \A j \in 1 .. Len(s) - 1 : RemoveAt(s, i)[j] = IF j < i THEN s[j] ELSE s[j + 1]
<1>. DEFINE a == SubSeq(s, 1, i - 1)
            b == SubSeq(s, i + 1, Len(s))
<1>1. Len(s) \in Nat /\ i \in 1 .. Len(s)
  BY LenProperties
<1>2. a \in Seq(S) /\ Len(a) = i - 1 /\ \A j \in 1 .. i - 1 : a[j] = s[j]
  BY <1>1
<1>3. b \in Seq(S) /\ Len(b) = Len(s) - i /\ \A j \in 1 .. Len(s) - i : b[j] = s[i + j]
  BY <1>1
<1>4. RemoveAt(s, i) = a \o b
  BY DEF RemoveAt
<1>. HIDE DEF a, b
<1>5. /\ a \o b \in Seq(S) /\ Len(a \o b) = Len(a) + Len(b)
      /\ \A j \in 1 .. Len(a) + Len(b) : (a \o b)[j] = IF j <= Len(a) THEN a[j] ELSE b[j - Len(a)]
  BY <1>2, <1>3, ConcatProperties
<1>6. RemoveAt(s, i) \in Seq(S) /\ Len(RemoveAt(s, i)) = Len(s) - 1
  BY <1>1, <1>2, <1>3, <1>4, <1>5
<1>7. ASSUME NEW j \in 1 .. Len(s) - 1
      PROVE  RemoveAt(s, i)[j] = IF j < i THEN s[j] ELSE s[j + 1]
  <2>1. RemoveAt(s, i)[j] = IF j <= i - 1 THEN a[j] ELSE b[j - (i - 1)]
    <3>1. j \in 1 .. Len(a) + Len(b) /\ Len(a) = i - 1
      BY <1>1, <1>2, <1>3
    <3>. QED
      BY <1>4, <1>5, <3>1
  <2>2. CASE j < i
    BY <1>1, <1>2, <2>1, <2>2
  <2>3. CASE ~(j < i)
    <3>1. j - (i - 1) \in 1 .. Len(s) - i /\ i + (j - (i - 1)) = j + 1
      BY <1>1, <2>3
    <3>. QED
      BY <1>1, <1>3, <2>1, <2>3, <3>1
  <2>. QED
    BY <2>2, <2>3
<1>. QED
  BY <1>1, <1>6, <1>7, LenProperties

\* SetToSeq lists each member of a finite set once.
LEMMA SetToSeqElements ==
  ASSUME NEW S, IsFiniteSet(S)
  PROVE  /\ Cardinality(S) \in Nat
         /\ SetToSeq(S) \in [1 .. Cardinality(S) -> S]
         /\ Len(SetToSeq(S)) = Cardinality(S)
         /\ \A i, j \in 1 .. Cardinality(S) : SetToSeq(S)[i] = SetToSeq(S)[j] => i = j
         /\ \A x \in S : \E i \in 1 .. Cardinality(S) : SetToSeq(S)[i] = x
<1>1. Cardinality(S) \in Nat /\ ExistsBijection(1 .. Cardinality(S), S)
  BY FS_CardinalityType
<1>2. PICK b \in Bijection(1 .. Cardinality(S), S) : TRUE
  BY <1>1 DEF ExistsBijection
<1>3. b \in [1 .. Cardinality(S) -> S] /\ IsInjective(b)
  BY <1>2 DEF Bijection, Injection, IsInjective
<1>4. SetToSeq(S) \in [1 .. Cardinality(S) -> S] /\ IsInjective(SetToSeq(S))
  BY <1>3 DEF SetToSeq
<1>5. SetToSeq(S) \in Injection(1 .. Cardinality(S), S)
  BY <1>4 DEF Injection
<1>6. Cardinality(1 .. Cardinality(S)) = Cardinality(S) /\ IsFiniteSet(1 .. Cardinality(S))
  BY <1>1, FS_Interval
<1>7. SetToSeq(S) \in Surjection(1 .. Cardinality(S), S)
  BY <1>5, <1>6, FS_Injection
<1>8. Len(SetToSeq(S)) = Cardinality(S)
  BY <1>1, <1>4
<1>. QED
  BY <1>1, <1>4, <1>7, <1>8 DEF Surjection, IsInjective

-----------------------------------------------------------------------------
(* What grant_missing sends and records.                                     *)

GrantTypes(o) ==
    /\ o.made \in Nat /\ made <= o.made /\ o.whole \in BOOLEAN
    /\ o.frames \in Seq(PassFrame) /\ o.gifts \in Seq(Gift)
    /\ o.granted \in [Peer -> 0 .. o.made] /\ o.broken \subseteq 1 .. o.made

\* It makes new passes, and takes back those of peers who deserve none.
GrantNews(o, sc) ==
    /\ \A i \in DOMAIN o.frames :
          \/ o.frames[i].op = "create" /\ o.frames[i].pass \in made + 1 .. o.made
          \/ /\ o.frames[i].op = "revoke"
             /\ \E p \in Peer \ Deserving(sc) : granted[p] # 0 /\ o.frames[i].pass = granted[p]
    /\ \A i \in DOMAIN o.gifts : o.gifts[i].pass \in made + 1 .. o.made
    /\ \A i, j \in DOMAIN o.gifts : i < j => o.gifts[i].pass < o.gifts[j].pass

\* All was sent: what the book says of p is what p has.
Settled(o, sc, p) ==
    /\ \A r \in Peer : p # r /\ o.granted[p] # 0 => o.granted[p] # o.granted[r]
    /\ p \in Deserving(sc) /\ granted[p] # 0 =>
          o.granted[p] = granted[p] /\ \A i \in DOMAIN o.gifts : o.gifts[i].to # p
    /\ p \in Deserving(sc) /\ granted[p] = 0 =>
          /\ o.granted[p] \in made + 1 .. o.made
          /\ \E i \in DOMAIN o.frames : Tells(o.frames, i, "create", o.granted[p])
          /\ \E i \in DOMAIN o.gifts : o.gifts[i].to = p /\ o.gifts[i].pass = o.granted[p]
          /\ \A i \in DOMAIN o.gifts : o.gifts[i].to = p => o.gifts[i].pass = o.granted[p]
    /\ p \notin Deserving(sc) =>
          /\ o.granted[p] = 0 /\ \A i \in DOMAIN o.gifts : o.gifts[i].to # p
          /\ granted[p] # 0 => \E i \in DOMAIN o.frames : Tells(o.frames, i, "revoke", granted[p])

\* It was cut: nothing is recorded, and all that was sent is broken.
WasCut(o) ==
    /\ o.granted = granted
    /\ \A i \in DOMAIN o.frames : o.frames[i].pass \in o.broken
    /\ \A i \in DOMAIN o.gifts : o.gifts[i].pass \in o.broken /\ granted[o.gifts[i].to] = 0

GrantTrue(o, sc) ==
    /\ GrantTypes(o) /\ GrantNews(o, sc)
    /\ o.whole => o.broken = {} /\ \A p \in Peer : Settled(o, sc, p)
    /\ ~o.whole => WasCut(o)

\* The first g elements; none, when g is 0 or less.
LEMMA FrontOf ==
  ASSUME NEW S, NEW s \in Seq(S), NEW g \in Int, g <= Len(s)
  PROVE  /\ SubSeq(s, 1, g) \in Seq(S)
         /\ DOMAIN SubSeq(s, 1, g) = 1 .. g
         /\ \A i \in 1 .. g : i \in DOMAIN s /\ SubSeq(s, 1, g)[i] = s[i]
<1>1. Len(s) \in Nat /\ DOMAIN s = 1 .. Len(s)
  BY LenProperties
<1>2. CASE g >= 1
  BY <1>1, <1>2
<1>3. CASE g < 1
  <2>1. SubSeq(s, 1, g) = << >> /\ 1 .. g = {}
    BY <1>1, <1>3
  <2>. QED
    BY <1>1, <2>1
<1>. QED
  BY <1>2, <1>3

\* The lists grant_missing goes through.
LEMMA PeersInTurn ==
  ASSUME DoorTypes, NEW sc
  PROVE  LET S == {p \in Peer : granted[p] # 0} \ Deserving(sc)
             M == {p \in Deserving(sc) : granted[p] = 0}
             n == Len(Stale(sc))
             m == Len(Missing(sc)) IN
         /\ n \in Nat /\ Stale(sc) \in [1 .. n -> S]
         /\ \A x \in S : \E i \in 1 .. n : Stale(sc)[i] = x
         /\ m \in Nat /\ Missing(sc) \in [1 .. m -> M]
         /\ \A i, j \in 1 .. m : Missing(sc)[i] = Missing(sc)[j] => i = j
         /\ \A x \in M : \E i \in 1 .. m : Missing(sc)[i] = x
<1>. DEFINE S == {p \in Peer : granted[p] # 0} \ Deserving(sc)
            M == {p \in Deserving(sc) : granted[p] = 0}
<1>1. S \subseteq Peer /\ M \subseteq Peer
  BY DEF Deserving
<1>2. IsFiniteSet(S) /\ IsFiniteSet(M)
  BY <1>1, DoorAssumption, FS_Subset
<1>3. Stale(sc) = SetToSeq(S) /\ Missing(sc) = SetToSeq(M)
  BY DEF Stale, Missing
<1>. HIDE DEF S, M
<1>4. /\ Cardinality(S) \in Nat /\ Stale(sc) \in [1 .. Cardinality(S) -> S]
      /\ Len(Stale(sc)) = Cardinality(S)
      /\ \A x \in S : \E i \in 1 .. Cardinality(S) : Stale(sc)[i] = x
  BY <1>2, <1>3, SetToSeqElements
<1>5. /\ Cardinality(M) \in Nat /\ Missing(sc) \in [1 .. Cardinality(M) -> M]
      /\ Len(Missing(sc)) = Cardinality(M)
      /\ \A i, j \in 1 .. Cardinality(M) : Missing(sc)[i] = Missing(sc)[j] => i = j
      /\ \A x \in M : \E i \in 1 .. Cardinality(M) : Missing(sc)[i] = x
  BY <1>2, <1>3, SetToSeqElements
<1>. QED
  BY <1>4, <1>5 DEF S, M

\* The frames, revokes first, and the gifts.
FrameList(sc) == Revokes(Stale(sc)) \o Creates(Missing(sc))

LEMMA FramesAndGifts ==
  ASSUME DoorTypes, NEW sc
  PROVE  LET n == Len(Stale(sc))
             m == Len(Missing(sc)) IN
         /\ n \in Nat /\ m \in Nat /\ made \in Nat
         /\ FrameList(sc) \in Seq(PassFrame) /\ Len(FrameList(sc)) = n + m
         /\ \A i \in 1 .. n : FrameList(sc)[i].op = "revoke" /\ FrameList(sc)[i].pass = granted[Stale(sc)[i]]
         /\ \A i \in 1 .. m : FrameList(sc)[n + i].op = "create" /\ FrameList(sc)[n + i].pass = made + i
         /\ Gifts(Missing(sc)) \in Seq(Gift) /\ Len(Gifts(Missing(sc))) = m
         /\ \A i \in 1 .. m : Gifts(Missing(sc))[i].to = Missing(sc)[i] /\ Gifts(Missing(sc))[i].pass = made + i
<1>. DEFINE stale == Stale(sc)
            missing == Missing(sc)
            n == Len(stale)
            m == Len(missing)
            revokes == Revokes(stale)
            creates == Creates(missing)
            gifts == Gifts(missing)
<1>1. made \in Nat /\ granted \in [Peer -> 0 .. made]
  BY DEF DoorTypes
<1>2. n \in Nat /\ stale \in [1 .. n -> Peer] /\ m \in Nat /\ missing \in [1 .. m -> Peer]
  BY PeersInTurn DEF Deserving
<1>. HIDE DEF stale, missing, n, m
<1>3. revokes \in [1 .. n -> PassFrame] /\ \A i \in 1 .. n : revokes[i].op = "revoke" /\ revokes[i].pass = granted[stale[i]]
  BY <1>1, <1>2 DEF PassFrame, Revokes
<1>4. creates \in [1 .. m -> PassFrame] /\ \A i \in 1 .. m : creates[i].op = "create" /\ creates[i].pass = made + i
  BY <1>1, <1>2 DEF PassFrame, Creates
<1>5. gifts \in [1 .. m -> Gift] /\ \A i \in 1 .. m : gifts[i].to = missing[i] /\ gifts[i].pass = made + i
  BY <1>1, <1>2 DEF Gift, Gifts
<1>. HIDE DEF revokes, creates, gifts
<1>6. revokes \in Seq(PassFrame) /\ Len(revokes) = n
  BY <1>2, <1>3, SeqDef
<1>7. creates \in Seq(PassFrame) /\ Len(creates) = m
  BY <1>2, <1>4, SeqDef
<1>8. gifts \in Seq(Gift) /\ Len(gifts) = m
  BY <1>2, <1>5, SeqDef
<1>9. /\ revokes \o creates \in Seq(PassFrame) /\ Len(revokes \o creates) = n + m
      /\ \A i \in 1 .. n + m : (revokes \o creates)[i] = IF i <= n THEN revokes[i] ELSE creates[i - n]
  BY <1>6, <1>7, ConcatProperties
<1>10. FrameList(sc) = revokes \o creates
  BY DEF FrameList, revokes, creates, stale, missing
<1>11. \A i \in 1 .. n : FrameList(sc)[i] = revokes[i]
  BY <1>2, <1>9, <1>10
<1>12. \A i \in 1 .. m : n + i \in 1 .. n + m /\ ~(n + i <= n) /\ (n + i) - n = i
  BY <1>2
<1>13. \A i \in 1 .. m : FrameList(sc)[n + i] = creates[i]
  BY <1>9, <1>10, <1>12
<1>. QED
  BY <1>1, <1>2, <1>3, <1>4, <1>5, <1>8, <1>9, <1>10, <1>11, <1>13 DEF n, m, stale, missing, gifts

\* The book after a granting that was not cut.
LEMMA BookedPasses ==
  ASSUME DoorTypes, NEW sc
  PROVE  LET b == Book(sc, Missing(sc))
             m == Len(Missing(sc)) IN
         /\ b \in [Peer -> 0 .. made + m]
         /\ \A i \in 1 .. m : b[Missing(sc)[i]] = made + i
         /\ \A p \in Deserving(sc) : granted[p] # 0 => b[p] = granted[p]
         /\ \A p \in Peer \ Deserving(sc) : b[p] = 0
<1>. DEFINE missing == Missing(sc)
            M == {p \in Deserving(sc) : granted[p] = 0}
            m == Len(missing)
            b == Book(sc, missing)
<1>1. made \in Nat /\ granted \in [Peer -> 0 .. made] /\ Deserving(sc) \subseteq Peer
  BY DEF DoorTypes, Deserving
<1>2. /\ m \in Nat /\ missing \in [1 .. m -> M]
      /\ \A i, j \in 1 .. m : missing[i] = missing[j] => i = j
      /\ \A x \in M : \E i \in 1 .. m : missing[i] = x
  BY PeersInTurn
<1>. HIDE DEF missing, m
<1>3. ASSUME NEW i \in 1 .. m
      PROVE  b[missing[i]] = made + i
  <2>1. missing[i] \in Peer /\ i \in DOMAIN missing
    BY <1>1, <1>2
  <2>2. (CHOOSE j \in DOMAIN missing : missing[j] = missing[i]) = i
    BY <1>2, <2>1
  <2>. QED
    BY <2>1, <2>2 DEF Book
<1>4. ASSUME NEW p \in Peer, p \notin M
      PROVE  b[p] = IF p \in Deserving(sc) THEN granted[p] ELSE 0
  <2>1. ~ \E i \in DOMAIN missing : missing[i] = p
    BY <1>2, <1>4
  <2>. QED
    BY <2>1 DEF Book
<1>5. b \in [Peer -> 0 .. made + m]
  <2>1. ASSUME NEW p \in Peer
        PROVE  b[p] \in 0 .. made + m
    <3>1. CASE p \in M
      <4>1. PICK i \in 1 .. m : missing[i] = p
        BY <1>2, <3>1
      <4>. QED
        BY <1>1, <1>2, <1>3, <4>1
    <3>2. CASE p \notin M
      BY <1>1, <1>2, <1>4, <3>2
    <3>. QED
      BY <3>1, <3>2
  <2>2. b = [p \in Peer |-> b[p]]
    BY DEF Book
  <2>. QED
    BY <2>1, <2>2
<1>6. \A p \in Deserving(sc) : granted[p] # 0 => p \in Peer /\ p \notin M
  BY <1>1
<1>7. \A p \in Peer \ Deserving(sc) : p \notin M
  OBVIOUS
<1>8. \A p \in Deserving(sc) : granted[p] # 0 => b[p] = granted[p]
  BY <1>4, <1>6
<1>9. \A p \in Peer \ Deserving(sc) : b[p] = 0
  BY <1>4, <1>7
<1>. QED
  BY <1>3, <1>5, <1>8, <1>9 DEF missing, m

\* All was sent and recorded.
LEMMA WholeIsTrue ==
  ASSUME DoorTypes, BookInv, NEW sc
  PROVE  GrantTrue(Whole(sc, Missing(sc), FrameList(sc)), sc)
<1>. DEFINE o == Whole(sc, Missing(sc), FrameList(sc))
            missing == Missing(sc)
            stale == Stale(sc)
            m == Len(missing)
            n == Len(stale)
            S == {p \in Peer : granted[p] # 0} \ Deserving(sc)
            M == {p \in Deserving(sc) : granted[p] = 0}
<1>1. /\ o.frames = FrameList(sc) /\ o.gifts = Gifts(missing) /\ o.whole = TRUE
      /\ o.granted = Book(sc, missing) /\ o.made = made + m /\ o.broken = {}
  BY DEF Whole
<1>2. /\ n \in Nat /\ m \in Nat /\ made \in Nat /\ granted \in [Peer -> 0 .. made]
      /\ Deserving(sc) \subseteq Peer
  BY FramesAndGifts DEF DoorTypes, Deserving
<1>3. /\ stale \in [1 .. n -> S] /\ missing \in [1 .. m -> M]
      /\ \A i, j \in 1 .. m : missing[i] = missing[j] => i = j
      /\ \A x \in S : \E i \in 1 .. n : stale[i] = x
      /\ \A x \in M : \E i \in 1 .. m : missing[i] = x
  BY PeersInTurn
<1>4. /\ o.frames \in Seq(PassFrame) /\ DOMAIN o.frames = 1 .. n + m
      /\ \A i \in 1 .. n : o.frames[i].op = "revoke" /\ o.frames[i].pass = granted[stale[i]]
      /\ \A i \in 1 .. m : o.frames[n + i].op = "create" /\ o.frames[n + i].pass = made + i
  BY <1>1, FramesAndGifts, LenProperties
<1>5. /\ o.gifts \in Seq(Gift) /\ DOMAIN o.gifts = 1 .. m
      /\ \A i \in 1 .. m : o.gifts[i].to = missing[i] /\ o.gifts[i].pass = made + i
  BY <1>1, FramesAndGifts, LenProperties
<1>6. /\ o.granted \in [Peer -> 0 .. made + m]
      /\ \A i \in 1 .. m : o.granted[missing[i]] = made + i
      /\ \A p \in Deserving(sc) : granted[p] # 0 => o.granted[p] = granted[p]
      /\ \A p \in Peer \ Deserving(sc) : o.granted[p] = 0
  BY <1>1, BookedPasses
<1>. HIDE DEF o, missing, stale, m, n
<1>7. GrantTypes(o)
  <2>1. o.made \in Nat /\ made <= o.made
    BY <1>1, <1>2
  <2>3. o.whole \in BOOLEAN /\ o.broken \subseteq 1 .. o.made
    BY <1>1, Zenon
  <2>2. o.granted \in [Peer -> 0 .. o.made]
    BY <1>1, <1>6
  <2>. QED
    BY <1>4, <1>5, <2>1, <2>2, <2>3 DEF GrantTypes
<1>8. ASSUME NEW i \in DOMAIN o.frames
      PROVE  \/ o.frames[i].op = "create" /\ o.frames[i].pass \in made + 1 .. o.made
             \/ /\ o.frames[i].op = "revoke"
                /\ \E p \in Peer \ Deserving(sc) : granted[p] # 0 /\ o.frames[i].pass = granted[p]
  <2>1. CASE i <= n
    <3>1. i \in 1 .. n
      BY <1>2, <1>4, <2>1
    <3>. QED
      BY <1>3, <1>4, <3>1
  <2>2. CASE ~(i <= n)
    <3>1. i - n \in 1 .. m /\ n + (i - n) = i
      BY <1>2, <1>4, <2>2
    <3>2. o.frames[i].op = "create" /\ o.frames[i].pass = made + (i - n)
      BY <1>4, <3>1
    <3>. QED
      BY <1>1, <1>2, <3>1, <3>2
  <2>. QED
    BY <2>1, <2>2
<1>9. /\ \A i \in DOMAIN o.gifts : o.gifts[i].pass \in made + 1 .. o.made
      /\ \A i, j \in DOMAIN o.gifts : i < j => o.gifts[i].pass < o.gifts[j].pass
  BY <1>1, <1>2, <1>5
<1>10. GrantNews(o, sc)
  BY <1>8, <1>9 DEF GrantNews
<1>11. \A i \in 1 .. m : o.gifts[i].to \in Deserving(sc) /\ granted[o.gifts[i].to] = 0
  BY <1>3, <1>5
<1>12. ASSUME NEW p \in Peer
       PROVE  Settled(o, sc, p)
  <2>1. ASSUME NEW r \in Peer, p # r, o.granted[p] # 0
        PROVE  o.granted[p] # o.granted[r]
    <3>1. granted[p] # 0 => granted[p] # granted[r]
      BY <2>1 DEF BookInv, InBook
    <3>2. ASSUME NEW x \in Peer, o.granted[x] # 0
          PROVE  \/ x \in Deserving(sc) /\ granted[x] # 0 /\ o.granted[x] = granted[x] /\ granted[x] <= made
                 \/ \E i \in 1 .. m : missing[i] = x /\ o.granted[x] = made + i
      <4>1. x \in Deserving(sc)
        BY <1>6, <3>2
      <4>2. CASE granted[x] # 0
        BY <1>2, <1>6, <4>1, <4>2
      <4>3. CASE granted[x] = 0
        BY <1>3, <1>6, <4>1, <4>3
      <4>. QED
        BY <4>2, <4>3
    <3>3. CASE o.granted[r] = 0
      BY <2>1, <3>3
    <3>4. CASE o.granted[r] # 0
      <4>1. \/ granted[p] # 0 /\ o.granted[p] = granted[p] /\ granted[p] <= made
            \/ \E i \in 1 .. m : missing[i] = p /\ o.granted[p] = made + i
        BY <2>1, <3>2
      <4>2. \/ granted[r] # 0 /\ o.granted[r] = granted[r] /\ granted[r] <= made
            \/ \E i \in 1 .. m : missing[i] = r /\ o.granted[r] = made + i
        BY <3>4, <3>2
      <4>3. made \in Nat /\ granted[p] \in Nat /\ granted[r] \in Nat
        BY <1>2
      <4>. QED
        BY <1>2, <2>1, <3>1, <4>1, <4>2, <4>3
    <3>. QED
      BY <3>3, <3>4
  <2>2. ASSUME p \in Deserving(sc), granted[p] # 0
        PROVE  o.granted[p] = granted[p] /\ \A i \in DOMAIN o.gifts : o.gifts[i].to # p
    BY <1>5, <1>6, <1>11, <2>2
  <2>3. ASSUME p \in Deserving(sc), granted[p] = 0
        PROVE  /\ o.granted[p] \in made + 1 .. o.made
               /\ \E i \in DOMAIN o.frames : Tells(o.frames, i, "create", o.granted[p])
               /\ \E i \in DOMAIN o.gifts : o.gifts[i].to = p /\ o.gifts[i].pass = o.granted[p]
               /\ \A i \in DOMAIN o.gifts : o.gifts[i].to = p => o.gifts[i].pass = o.granted[p]
    <3>1. PICK k \in 1 .. m : missing[k] = p
      BY <1>3, <2>3
    <3>2. o.granted[p] = made + k /\ made + k \in made + 1 .. o.made
      BY <1>1, <1>2, <1>6, <3>1
    <3>3. n + k \in DOMAIN o.frames
      BY <1>2, <1>4, <3>1
    <3>4. Tells(o.frames, n + k, "create", o.granted[p])
      BY <1>4, <3>1, <3>2, <3>3 DEF Tells
    <3>5. \A i \in DOMAIN o.gifts : o.gifts[i].to = p => i = k
      BY <1>3, <1>5, <3>1
    <3>. QED
      BY <1>5, <3>1, <3>2, <3>3, <3>4, <3>5
  <2>4. ASSUME p \notin Deserving(sc)
        PROVE  /\ o.granted[p] = 0 /\ \A i \in DOMAIN o.gifts : o.gifts[i].to # p
               /\ granted[p] # 0 => \E i \in DOMAIN o.frames : Tells(o.frames, i, "revoke", granted[p])
    <3>1. o.granted[p] = 0 /\ \A i \in DOMAIN o.gifts : o.gifts[i].to # p
      BY <1>5, <1>6, <1>11, <2>4
    <3>2. ASSUME granted[p] # 0
          PROVE  \E i \in DOMAIN o.frames : Tells(o.frames, i, "revoke", granted[p])
      <4>1. PICK k \in 1 .. n : stale[k] = p
        BY <1>3, <2>4, <3>2
      <4>2. k \in DOMAIN o.frames
        BY <1>2, <1>4
      <4>3. Tells(o.frames, k, "revoke", granted[p])
        BY <1>4, <4>1, <4>2 DEF Tells
      <4>. QED
        BY <4>2, <4>3
    <3>. QED
      BY <3>1, <3>2
  <2>. QED
    BY <2>1, <2>2, <2>3, <2>4 DEF Settled
<1>. QED
  BY <1>1, <1>7, <1>10, <1>12 DEF GrantTrue, o

\* An error cut the granting.
LEMMA CutIsTrue ==
  ASSUME DoorTypes, NEW sc, NEW f \in 0 .. Len(FrameList(sc)), NEW k \in {0, 1}, NEW news,
         news = IF f > Len(Stale(sc)) THEN f - Len(Stale(sc)) ELSE 0
  PROVE  GrantTrue(Cut(Missing(sc), FrameList(sc), f, news, news - k), sc)
<1>. DEFINE missing == Missing(sc)
            stale == Stale(sc)
            sent == FrameList(sc)
            o == Cut(missing, sent, f, news, news - k)
            m == Len(missing)
            n == Len(stale)
            S == {p \in Peer : granted[p] # 0} \ Deserving(sc)
            M == {p \in Deserving(sc) : granted[p] = 0}
<1>1. /\ o.frames = SubSeq(sent, 1, f) /\ o.gifts = SubSeq(Gifts(missing), 1, news - k)
      /\ o.granted = granted /\ o.made = made + news /\ o.broken = {sent[i].pass : i \in 1 .. f}
  BY DEF Cut
<1>0. o.whole = FALSE
  BY DEF Cut
<1>2. /\ n \in Nat /\ m \in Nat /\ made \in Nat /\ granted \in [Peer -> 0 .. made]
      /\ Deserving(sc) \subseteq Peer
  BY FramesAndGifts DEF DoorTypes, Deserving
<1>3. stale \in [1 .. n -> S] /\ missing \in [1 .. m -> M]
  BY PeersInTurn
<1>4. /\ sent \in Seq(PassFrame) /\ Len(sent) = n + m
      /\ \A i \in 1 .. n : sent[i].op = "revoke" /\ sent[i].pass = granted[stale[i]]
      /\ \A i \in 1 .. m : sent[n + i].op = "create" /\ sent[n + i].pass = made + i
  BY FramesAndGifts
<1>5. /\ Gifts(missing) \in Seq(Gift) /\ Len(Gifts(missing)) = m
      /\ \A i \in 1 .. m : Gifts(missing)[i].to = missing[i] /\ Gifts(missing)[i].pass = made + i
  BY FramesAndGifts
<1>6. f \in 0 .. n + m
  BY <1>4
<1>7. news \in 0 .. m /\ (f <= n => news = 0) /\ (f > n => news = f - n) /\ news - k \in Int /\ news - k <= m
  BY <1>2, <1>6
<1>. HIDE DEF o, missing, stale, sent, m, n
<1>8. /\ o.frames \in Seq(PassFrame) /\ DOMAIN o.frames = 1 .. f
      /\ \A i \in 1 .. f : o.frames[i] = sent[i]
  BY <1>1, <1>4, <1>6, FrontOf
<1>9. /\ o.gifts \in Seq(Gift) /\ DOMAIN o.gifts = 1 .. news - k
      /\ \A i \in 1 .. news - k : o.gifts[i] = Gifts(missing)[i]
  BY <1>1, <1>5, <1>7, FrontOf
<1>10. \A i \in 1 .. f : \/ /\ i \in 1 .. n /\ sent[i].op = "revoke"
                            /\ sent[i].pass = granted[stale[i]]
                         \/ /\ i - n \in 1 .. news /\ sent[i].op = "create"
                            /\ sent[i].pass = made + (i - n)
  <2>1. ASSUME NEW i \in 1 .. f, ~(i <= n)
        PROVE  i - n \in 1 .. news /\ i - n \in 1 .. m /\ n + (i - n) = i
    BY <1>2, <1>6, <1>7, <2>1
  <2>2. \A i \in 1 .. f : i <= n => i \in 1 .. n
    BY <1>2, <1>6
  <2>3. ASSUME NEW i \in 1 .. f, ~(i <= n)
        PROVE  sent[i].op = "create" /\ sent[i].pass = made + (i - n)
    BY <1>4, <2>1, <2>3
  <2>. QED
    BY <1>4, <2>1, <2>2, <2>3
<1>11. \A i \in 1 .. news : /\ n + i \in 1 .. f /\ sent[n + i].pass = made + i
  BY <1>2, <1>4, <1>6, <1>7
<1>12. \A i \in 1 .. news - k : /\ o.gifts[i].to = missing[i] /\ o.gifts[i].pass = made + i
                                /\ missing[i] \in M /\ i \in 1 .. news
  <2>1. \A i \in 1 .. news - k : i \in 1 .. m /\ i \in 1 .. news
    BY <1>2, <1>7
  <2>. QED
    BY <1>3, <1>5, <1>9, <2>1
<1>13. \A i \in 1 .. n : stale[i] \in S /\ granted[stale[i]] \in 1 .. made
  BY <1>2, <1>3
<1>14. GrantTypes(o)
  <2>1. o.made \in Nat /\ made <= o.made
    BY <1>1, <1>2, <1>7
  <2>2. o.granted \in [Peer -> 0 .. o.made]
    BY <1>1, <1>2, <2>1
  <2>3. o.whole \in BOOLEAN
    BY <1>0, Zenon
  <2>4. ASSUME NEW i \in 1 .. f
        PROVE  sent[i].pass \in 1 .. o.made
    <3>1. CASE i \in 1 .. n /\ sent[i].pass = granted[stale[i]]
      <4>1. sent[i].pass \in 1 .. made
        BY <1>13, <3>1
      <4>. QED
        BY <1>2, <2>1, <4>1
    <3>2. CASE i - n \in 1 .. news /\ sent[i].pass = made + (i - n)
      BY <1>1, <1>2, <1>7, <3>2
    <3>. QED
      BY <1>10, <3>1, <3>2
  <2>5. o.broken \subseteq 1 .. o.made
    BY <1>1, <2>4
  <2>. QED
    BY <1>8, <1>9, <2>1, <2>2, <2>3, <2>5 DEF GrantTypes
<1>15. GrantNews(o, sc)
  <2>1. ASSUME NEW i \in DOMAIN o.frames
        PROVE  \/ o.frames[i].op = "create" /\ o.frames[i].pass \in made + 1 .. o.made
               \/ /\ o.frames[i].op = "revoke"
                  /\ \E p \in Peer \ Deserving(sc) : granted[p] # 0 /\ o.frames[i].pass = granted[p]
    <3>1. CASE i \in 1 .. n /\ sent[i].op = "revoke" /\ sent[i].pass = granted[stale[i]]
      <4>1. stale[i] \in Peer \ Deserving(sc) /\ granted[stale[i]] # 0
        BY <1>13, <3>1
      <4>. QED
        BY <1>8, <3>1, <4>1
    <3>2. CASE i - n \in 1 .. news /\ sent[i].op = "create" /\ sent[i].pass = made + (i - n)
      <4>1. sent[i].pass \in made + 1 .. o.made
        BY <1>1, <1>2, <1>7, <3>2, SMTT(60)
      <4>. QED
        BY <1>8, <3>2, <4>1
    <3>. QED
      BY <1>8, <1>10, <3>1, <3>2
  <2>2. ASSUME NEW i \in DOMAIN o.gifts
        PROVE  o.gifts[i].pass \in made + 1 .. o.made
    <3>1. o.gifts[i].pass = made + i /\ i \in 1 .. news
      BY <1>9, <1>12
    <3>. QED
      BY <1>1, <1>2, <1>7, <3>1, SMTT(60)
  <2>3. ASSUME NEW i \in DOMAIN o.gifts, NEW j \in DOMAIN o.gifts, i < j
        PROVE  o.gifts[i].pass < o.gifts[j].pass
    <3>1. o.gifts[i].pass = made + i /\ o.gifts[j].pass = made + j
      BY <1>9, <1>12
    <3>2. i \in Int /\ j \in Int
      BY <1>7, <1>9
    <3>. QED
      BY <1>2, <2>3, <3>1, <3>2
  <2>. QED
    BY <2>1, <2>2, <2>3 DEF GrantNews
<1>16. WasCut(o)
  <2>1. \A i \in DOMAIN o.frames : o.frames[i].pass \in o.broken
    BY <1>1, <1>8
  <2>2. \A i \in DOMAIN o.gifts : o.gifts[i].pass \in o.broken /\ granted[o.gifts[i].to] = 0
    <3>1. ASSUME NEW i \in 1 .. news - k
          PROVE  o.gifts[i].pass \in o.broken
      <4>1. n + i \in 1 .. f /\ sent[n + i].pass = o.gifts[i].pass
        BY <1>11, <1>12
      <4>. QED
        BY <1>1, <4>1
    <3>2. \A i \in 1 .. news - k : granted[o.gifts[i].to] = 0
      BY <1>12
    <3>. QED
      BY <1>9, <3>1, <3>2
  <2>. QED
    BY <1>1, <2>1, <2>2 DEF WasCut
<1>17. ~o.whole
  BY <1>0, Zenon
<1>18. GrantTrue(o, sc)
  BY <1>14, <1>15, <1>16, <1>17, Zenon DEF GrantTrue
<1>. QED
  BY <1>18, Zenon DEF o, missing, stale, sent, m, n

\* Every outcome of grant_missing is one of the two.
LEMMA GrantsAreTrue ==
  ASSUME DoorTypes, BookInv, NEW sc, NEW o \in Grants(sc)
  PROVE  GrantTrue(o, sc)
<1>. DEFINE News(f) == IF f > Len(Stale(sc)) THEN f - Len(Stale(sc)) ELSE 0
<1>1. \/ o = Whole(sc, Missing(sc), FrameList(sc))
      \/ \E f \in 0 .. Len(FrameList(sc)), k \in {0, 1} :
            o = Cut(Missing(sc), FrameList(sc), f, News(f), News(f) - k)
  BY DEF Grants, FrameList
<1>2. ASSUME NEW f \in 0 .. Len(FrameList(sc)), NEW k \in {0, 1},
             o = Cut(Missing(sc), FrameList(sc), f, News(f), News(f) - k)
      PROVE  GrantTrue(o, sc)
  BY <1>2, CutIsTrue
<1>. QED
  BY <1>1, <1>2, WholeIsTrue

-----------------------------------------------------------------------------
(* What is said later.                                                       *)

\* The frames that wait, once others were written behind them.
LEMMA TellsAfter ==
  ASSUME NEW fs \in Seq(Frame), NEW new \in Seq(PassFrame), NEW behind \in Seq(SetFrame)
  PROVE  LET gs == fs \o new \o behind
             a == Len(fs)
             b == Len(new)
             c == Len(behind) IN
         /\ gs \in Seq(Frame) /\ a \in Nat /\ b \in Nat /\ c \in Nat
         /\ DOMAIN fs = 1 .. a /\ DOMAIN new = 1 .. b /\ DOMAIN behind = 1 .. c /\ DOMAIN gs = 1 .. a + b + c
         /\ \A i \in 1 .. a : gs[i] = fs[i]
         /\ \A i \in a + 1 .. a + b : gs[i] = new[i - a]
         /\ \A i \in a + b + 1 .. a + b + c : gs[i] = behind[i - (a + b)]
<1>. DEFINE a == Len(fs)
            b == Len(new)
            c == Len(behind)
            half == fs \o new
            gs == half \o behind
<1>1. new \in Seq(Frame) /\ behind \in Seq(Frame)
  BY SeqMonotonic DEF Frame
<1>2. /\ a \in Nat /\ b \in Nat /\ c \in Nat
      /\ DOMAIN fs = 1 .. a /\ DOMAIN new = 1 .. b /\ DOMAIN behind = 1 .. c
  BY LenProperties
<1>3. /\ half \in Seq(Frame) /\ Len(half) = a + b
      /\ \A i \in 1 .. a + b : half[i] = IF i <= a THEN fs[i] ELSE new[i - a]
  BY <1>1, ConcatProperties
<1>0. Len(behind) = c
  OBVIOUS
<1>. HIDE DEF half, a, b, c
<1>4. /\ gs \in Seq(Frame) /\ Len(gs) = a + b + c
      /\ \A i \in 1 .. a + b + c : gs[i] = IF i <= a + b THEN half[i] ELSE behind[i - (a + b)]
  <2>1. /\ half \o behind \in Seq(Frame) /\ Len(half \o behind) = Len(half) + Len(behind)
        /\ \A i \in 1 .. Len(half) + Len(behind) :
              (half \o behind)[i] = IF i <= Len(half) THEN half[i] ELSE behind[i - Len(half)]
    BY <1>1, <1>3, ConcatProperties
  <2>2. Len(half) = a + b /\ Len(half) + Len(behind) = a + b + c
    BY <1>0, <1>2, <1>3
  <2>. QED
    BY <2>1, <2>2
<1>. HIDE DEF gs
<1>5. DOMAIN gs = 1 .. a + b + c
  BY <1>4, LenProperties
<1>6. \A i \in 1 .. a : gs[i] = fs[i]
  BY <1>2, <1>3, <1>4
<1>7. ASSUME NEW i \in a + 1 .. a + b
      PROVE  gs[i] = new[i - a]
  <2>1. i \in 1 .. a + b + c /\ i \in 1 .. a + b /\ i <= a + b /\ ~(i <= a)
    BY <1>2
  <2>. QED
    BY <1>3, <1>4, <2>1
<1>8. ASSUME NEW i \in a + b + 1 .. a + b + c
      PROVE  gs[i] = behind[i - (a + b)]
  <2>1. i \in 1 .. a + b + c /\ ~(i <= a + b)
    BY <1>2
  <2>. QED
    BY <1>4, <2>1
<1>. QED
  BY <1>2, <1>4, <1>5, <1>6, <1>7, <1>8 DEF a, b, c, gs, half

Extends(gs, fs, new, behind) ==
    LET a == Len(fs)
        b == Len(new)
        c == Len(behind) IN
    /\ gs \in Seq(Frame) /\ a \in Nat /\ b \in Nat /\ c \in Nat
    /\ DOMAIN fs = 1 .. a /\ DOMAIN new = 1 .. b /\ DOMAIN behind = 1 .. c /\ DOMAIN gs = 1 .. a + b + c
    /\ \A i \in 1 .. a : gs[i] = fs[i]
    /\ \A i \in a + 1 .. a + b : gs[i] = new[i - a]
    /\ \A i \in a + b + 1 .. a + b + c : gs[i] = behind[i - (a + b)]

LEMMA ItExtends ==
  ASSUME NEW fs \in Seq(Frame), NEW new \in Seq(PassFrame), NEW behind \in Seq(SetFrame)
  PROVE  Extends(fs \o new \o behind, fs, new, behind)
BY TellsAfter DEF Extends

\* What they tell is what was told before, and what the new ones tell.
LEMMA ToldAfter ==
  ASSUME NEW fs \in Seq(Frame), NEW new \in Seq(PassFrame), NEW behind \in Seq(SetFrame),
         NEW op \in {"create", "revoke"}, NEW q
  PROVE  LET gs == fs \o new \o behind IN
         /\ \A i \in DOMAIN fs : Tells(fs, i, op, q) => i \in DOMAIN gs /\ Tells(gs, i, op, q)
         /\ \A i \in DOMAIN new : Tells(new, i, op, q) => Len(fs) + i \in DOMAIN gs /\ Tells(gs, Len(fs) + i, op, q)
         /\ \A i \in DOMAIN gs : Tells(gs, i, op, q) =>
               \/ i \in DOMAIN fs /\ Tells(fs, i, op, q)
               \/ i > Len(fs) /\ i <= Len(fs) + Len(new) /\ i - Len(fs) \in DOMAIN new /\ Tells(new, i - Len(fs), op, q)
<1>. DEFINE gs == fs \o new \o behind
            a == Len(fs)
            b == Len(new)
            c == Len(behind)
<1>1. /\ a \in Nat /\ b \in Nat /\ c \in Nat
      /\ DOMAIN fs = 1 .. a /\ DOMAIN new = 1 .. b /\ DOMAIN behind = 1 .. c /\ DOMAIN gs = 1 .. a + b + c
      /\ \A i \in 1 .. a : gs[i] = fs[i]
      /\ \A i \in a + 1 .. a + b : gs[i] = new[i - a]
      /\ \A i \in a + b + 1 .. a + b + c : gs[i] = behind[i - (a + b)]
  BY TellsAfter
<1>2. \A i \in 1 .. c : behind[i].op = "set"
  <2>1. ASSUME NEW i \in 1 .. c
        PROVE  behind[i] \in SetFrame
    BY ElementOfSeq
  <2>. QED
    BY <2>1 DEF SetFrame
<1>. HIDE DEF gs, a, b, c
<1>3. ASSUME NEW i \in 1 .. b
      PROVE  a + i \in DOMAIN gs /\ gs[a + i] = new[i]
  <2>1. a + i \in a + 1 .. a + b /\ a + i \in 1 .. a + b + c /\ (a + i) - a = i
    BY <1>1
  <2>. QED
    BY <1>1, <2>1
<1>4. ASSUME NEW i \in 1 .. a + b + c, Tells(gs, i, op, q)
      PROVE  \/ i \in DOMAIN fs /\ Tells(fs, i, op, q)
             \/ i > a /\ i <= a + b /\ i - a \in DOMAIN new /\ Tells(new, i - a, op, q)
  <2>1. CASE i <= a
    <3>1. i \in 1 .. a
      BY <1>1, <2>1
    <3>. QED
      BY <1>1, <1>4, <3>1 DEF Tells
  <2>2. CASE i > a /\ i <= a + b
    <3>1. i \in a + 1 .. a + b /\ i - a \in 1 .. b
      BY <1>1, <2>2
    <3>. QED
      BY <1>1, <1>4, <2>2, <3>1 DEF Tells
  <2>3. CASE i > a + b
    <3>1. i \in a + b + 1 .. a + b + c /\ i - (a + b) \in 1 .. c
      BY <1>1, <2>3
    <3>2. gs[i].op = "set"
      BY <1>1, <1>2, <3>1
    <3>. QED
      BY <1>4, <3>2 DEF Tells
  <2>. QED
    BY <1>1, <2>1, <2>2, <2>3
<1>5. \A i \in DOMAIN fs : i \in DOMAIN gs
  BY <1>1
<1>6. \A i \in DOMAIN fs : Tells(fs, i, op, q) => i \in DOMAIN gs /\ Tells(gs, i, op, q)
  BY <1>1, <1>5 DEF Tells
<1>7. \A i \in DOMAIN new : Tells(new, i, op, q) => a + i \in DOMAIN gs /\ Tells(gs, a + i, op, q)
  BY <1>1, <1>3 DEF Tells
<1>. QED
  BY <1>1, <1>4, <1>6, <1>7 DEF gs, a, b

Untold(fs, op, q) == \A i \in DOMAIN fs : ~Tells(fs, i, op, q)

\* A pass stays honoured if it is not taken back, and one that is made comes to be.
LEMMA HonouredMore ==
  ASSUME NEW fs \in Seq(Frame), NEW new \in Seq(PassFrame), NEW behind \in Seq(SetFrame), NEW q, NEW ps,
         Honoured(q, fs, ps) \/ (Untold(fs, "revoke", q) /\ \E i \in DOMAIN new : Tells(new, i, "create", q)),
         Untold(new, "revoke", q)
  PROVE  Honoured(q, fs \o new \o behind, ps)
<1>. DEFINE gs == fs \o new \o behind
<1>1. /\ \A i \in DOMAIN fs : Tells(fs, i, "create", q) => i \in DOMAIN gs /\ Tells(gs, i, "create", q)
      /\ \A i \in DOMAIN new : Tells(new, i, "create", q) => Len(fs) + i \in DOMAIN gs /\ Tells(gs, Len(fs) + i, "create", q)
  BY ToldAfter
<1>2. \A i \in DOMAIN gs : Tells(gs, i, "revoke", q) =>
               \/ i \in DOMAIN fs /\ Tells(fs, i, "revoke", q)
               \/ i > Len(fs) /\ i <= Len(fs) + Len(new) /\ i - Len(fs) \in DOMAIN new /\ Tells(new, i - Len(fs), "revoke", q)
  BY ToldAfter
<1>. HIDE DEF gs
<1>3. \A i \in DOMAIN gs : ~Tells(gs, i, "revoke", q)
  BY <1>2 DEF Honoured, Untold
<1>4. q \in ps \/ \E i \in DOMAIN gs : Tells(gs, i, "create", q)
  BY <1>1 DEF Honoured
<1>. QED
  BY <1>3, <1>4 DEF Honoured, gs

\* A pass stays withdrawn if it is not made again, and one that is taken back comes to be.
LEMMA WithdrawnMore ==
  ASSUME NEW fs \in Seq(Frame), NEW new \in Seq(PassFrame), NEW behind \in Seq(SetFrame), NEW q, NEW ps,
         Withdrawn(q, fs, ps) \/ \E i \in DOMAIN new : Tells(new, i, "revoke", q),
         Untold(new, "create", q)
  PROVE  Withdrawn(q, fs \o new \o behind, ps)
<1>. DEFINE gs == fs \o new \o behind
<1>1. /\ \A i \in DOMAIN fs : Tells(fs, i, "revoke", q) => i \in DOMAIN gs /\ Tells(gs, i, "revoke", q)
      /\ \A i \in DOMAIN new : Tells(new, i, "revoke", q) => Len(fs) + i \in DOMAIN gs /\ Tells(gs, Len(fs) + i, "revoke", q)
  BY ToldAfter
<1>2. \A i \in DOMAIN gs : Tells(gs, i, "create", q) =>
               \/ i \in DOMAIN fs /\ Tells(fs, i, "create", q)
               \/ i > Len(fs) /\ i <= Len(fs) + Len(new) /\ i - Len(fs) \in DOMAIN new /\ Tells(new, i - Len(fs), "create", q)
  BY ToldAfter
<1>3. Len(fs) \in Nat /\ DOMAIN fs = 1 .. Len(fs) /\ DOMAIN new = 1 .. Len(new) /\ Len(new) \in Nat
  BY LenProperties
<1>. HIDE DEF gs
<1>4. \A i \in DOMAIN gs : Tells(gs, i, "create", q) => i \in DOMAIN fs /\ Tells(fs, i, "create", q)
  BY <1>2 DEF Untold
<1>5. ASSUME Withdrawn(q, fs, ps)
      PROVE  Withdrawn(q, gs, ps)
  BY <1>1, <1>4, <1>5 DEF Withdrawn
<1>6. ASSUME \E i \in DOMAIN new : Tells(new, i, "revoke", q)
      PROVE  Withdrawn(q, gs, ps)
  <2>1. PICK i \in DOMAIN new : Tells(new, i, "revoke", q)
    BY <1>6
  <2>2. Len(fs) + i \in DOMAIN gs /\ Tells(gs, Len(fs) + i, "revoke", q)
    BY <1>1, <2>1
  <2>3. \A j \in DOMAIN fs : j < Len(fs) + i
    BY <1>3
  <2>. QED
    BY <1>4, <2>2, <2>3 DEF Withdrawn
<1>7. Withdrawn(q, gs, ps)
  BY <1>5, <1>6
<1>. QED
  BY <1>7 DEF gs

-----------------------------------------------------------------------------
(* A granting keeps the invariant.                                           *)

Grant(o, sc, behind) ==
    /\ GrantTrue(o, sc) /\ Granting(o, behind) /\ behind \in Seq(SetFrame)
    /\ \A i \in DOMAIN behind : behind[i].due = Due(o, sc)
    /\ UNCHANGED <<standing, dm, passes, box, keeps>>

\* What a granting changes.
LEMMA GrantParts ==
  ASSUME DoorTypes, NEW o, NEW sc, NEW behind, Grant(o, sc, behind)
  PROVE  /\ made \in Nat /\ o.made \in Nat /\ made <= o.made /\ o.made <= MaxMade /\ made' = o.made
         /\ frames \in Seq(Frame) /\ o.frames \in Seq(PassFrame) /\ behind \in Seq(SetFrame)
         /\ frames' = frames \o o.frames \o behind
         /\ queue \in Seq(Gift) /\ o.gifts \in Seq(Gift) /\ queue' = queue \o o.gifts
         /\ granted \in [Peer -> 0 .. made] /\ granted' = o.granted /\ o.granted \in [Peer -> 0 .. o.made]
         /\ broken' = broken \union o.broken /\ o.broken \subseteq 1 .. o.made
         /\ UNCHANGED <<standing, dm, passes, box, keeps>>
BY DoorAssumption DEF DoorTypes, Grant, GrantTrue, GrantTypes, Granting

\* What it makes was never spoken of, and what it takes back was in the book of one who deserves none.
LEMMA NewsIsNew ==
  ASSUME DoorTypes, NEW o, NEW sc, NEW behind, Grant(o, sc, behind)
  PROVE  /\ \A q \in 0 .. made : Untold(o.frames, "create", q)
         /\ \A q \in made + 1 .. o.made : Untold(o.frames, "revoke", q) /\ Untold(frames, "revoke", q)
         /\ \A q : ~Untold(o.frames, "revoke", q) => \E p \in Peer \ Deserving(sc) : granted[p] # 0 /\ q = granted[p]
<1>1. /\ made \in Nat /\ granted \in [Peer -> 0 .. made]
      /\ \A i \in DOMAIN frames : frames[i].op # "set" => frames[i].pass \in 1 .. made
  BY DEF DoorTypes
<1>2. \A i \in DOMAIN o.frames :
          \/ o.frames[i].op = "create" /\ o.frames[i].pass \in made + 1 .. o.made
          \/ /\ o.frames[i].op = "revoke"
             /\ \E p \in Peer \ Deserving(sc) : granted[p] # 0 /\ o.frames[i].pass = granted[p]
  BY DEF Grant, GrantTrue, GrantNews
<1>3. \A q \in 0 .. made : Untold(o.frames, "create", q)
  BY <1>1, <1>2 DEF Untold, Tells
<1>4. \A q \in made + 1 .. o.made : Untold(frames, "revoke", q)
  BY <1>1 DEF Untold, Tells
<1>5. \A q : ~Untold(o.frames, "revoke", q) => \E p \in Peer \ Deserving(sc) : granted[p] # 0 /\ q = granted[p]
  BY <1>2 DEF Untold, Tells
<1>6. \A q \in made + 1 .. o.made : Untold(o.frames, "revoke", q)
  BY <1>1, <1>5
<1>. QED
  BY <1>3, <1>4, <1>5, <1>6

\* Who is given what, before and after.
LEMMA GivenAfter ==
  ASSUME DoorTypes, NEW o, NEW sc, NEW behind, Grant(o, sc, behind), NEW p \in Peer, NEW q
  PROVE  /\ Given(q, p) => Given(q, p)'
         /\ \A i \in DOMAIN o.gifts : o.gifts[i].to = p /\ o.gifts[i].pass = q => Given(q, p)'
         /\ Given(q, p)' => Given(q, p) \/ \E i \in DOMAIN o.gifts : o.gifts[i].to = p /\ o.gifts[i].pass = q
         /\ Given(q, p) => q \in 0 .. made
<1>1. queue \in Seq(Gift) /\ o.gifts \in Seq(Gift) /\ queue' = queue \o o.gifts /\ UNCHANGED <<box, keeps>>
  BY GrantParts
<1>. DEFINE a == Len(queue)
            b == Len(o.gifts)
<1>2. a \in Nat /\ b \in Nat /\ DOMAIN queue = 1 .. a /\ DOMAIN o.gifts = 1 .. b
  BY <1>1, LenProperties
<1>3. /\ queue' \in Seq(Gift) /\ Len(queue') = a + b
      /\ \A i \in 1 .. a + b : queue'[i] = IF i <= a THEN queue[i] ELSE o.gifts[i - a]
  BY <1>1, ConcatProperties
<1>4. DOMAIN queue' = 1 .. a + b
  BY <1>3, LenProperties
<1>. HIDE DEF a, b
<1>5. ASSUME NEW i \in DOMAIN queue
      PROVE  i \in DOMAIN queue' /\ queue'[i] = queue[i]
  BY <1>2, <1>3, <1>4
<1>6. ASSUME NEW i \in DOMAIN o.gifts
      PROVE  a + i \in DOMAIN queue' /\ queue'[a + i] = o.gifts[i]
  <2>1. a + i \in 1 .. a + b /\ ~(a + i <= a) /\ (a + i) - a = i
    BY <1>2
  <2>. QED
    BY <1>3, <1>4, <2>1
<1>7. ASSUME NEW i \in DOMAIN queue'
      PROVE  (i \in DOMAIN queue /\ queue'[i] = queue[i]) \/ (i - a \in DOMAIN o.gifts /\ queue'[i] = o.gifts[i - a])
  BY <1>2, <1>3, <1>4
<1>8. Given(q, p) => q \in 0 .. made
  BY DEF DoorTypes, Given
<1>9. Given(q, p) => Given(q, p)'
  BY <1>1, <1>5 DEF Given
<1>10. \A i \in DOMAIN o.gifts : o.gifts[i].to = p /\ o.gifts[i].pass = q => Given(q, p)'
  BY <1>6 DEF Given
<1>11. Given(q, p)' => Given(q, p) \/ \E i \in DOMAIN o.gifts : o.gifts[i].to = p /\ o.gifts[i].pass = q
  BY <1>1, <1>7 DEF Given
<1>. QED
  BY <1>8, <1>9, <1>10, <1>11

\* Types, order, book and policies, in turn.
LEMMA GrantKeepsTypes ==
  ASSUME DoorTypes, NEW o, NEW sc, NEW behind, Grant(o, sc, behind),
         scope' \in Scope, policy' \in Policy, online' \in BOOLEAN
  PROVE  DoorTypes'
<1>1. /\ made \in Nat /\ o.made \in Nat /\ made <= o.made /\ o.made <= MaxMade /\ made' = o.made
      /\ frames \in Seq(Frame) /\ o.frames \in Seq(PassFrame) /\ behind \in Seq(SetFrame)
      /\ frames' = frames \o o.frames \o behind
      /\ queue \in Seq(Gift) /\ o.gifts \in Seq(Gift) /\ queue' = queue \o o.gifts
      /\ granted' = o.granted /\ o.granted \in [Peer -> 0 .. o.made]
      /\ broken' = broken \union o.broken /\ o.broken \subseteq 1 .. o.made
      /\ UNCHANGED <<standing, dm, passes, box, keeps>>
  BY GrantParts
<1>2. 0 .. made \subseteq 0 .. made' /\ 1 .. made \subseteq 1 .. made' /\ made + 1 .. o.made \subseteq 1 .. made'
  BY <1>1
<1>3. queue' \in Seq(Gift) /\ \A i \in DOMAIN queue' : queue'[i].pass \in 1 .. made'
  <2>. DEFINE a == Len(queue)
              b == Len(o.gifts)
  <2>1. a \in Nat /\ b \in Nat /\ DOMAIN queue = 1 .. a /\ DOMAIN o.gifts = 1 .. b
    BY <1>1, LenProperties
  <2>2. /\ queue' \in Seq(Gift) /\ Len(queue') = a + b
        /\ \A i \in 1 .. a + b : queue'[i] = IF i <= a THEN queue[i] ELSE o.gifts[i - a]
    BY <1>1, ConcatProperties
  <2>3. DOMAIN queue' = 1 .. a + b
    BY <2>2, LenProperties
  <2>4. \A i \in DOMAIN queue : queue[i].pass \in 1 .. made
    BY DEF DoorTypes
  <2>5. \A i \in DOMAIN o.gifts : o.gifts[i].pass \in made + 1 .. o.made
    BY DEF Grant, GrantTrue, GrantNews
  <2>. HIDE DEF a, b
  <2>6. \A i \in 1 .. a + b : (i <= a => i \in DOMAIN queue) /\ (~(i <= a) => i - a \in DOMAIN o.gifts)
    BY <2>1
  <2>. QED
    BY <1>2, <2>2, <2>3, <2>4, <2>5, <2>6
<1>4. frames' \in Seq(Frame) /\ \A i \in DOMAIN frames' : frames'[i].op # "set" => frames'[i].pass \in 1 .. made'
  <2>. DEFINE a == Len(frames)
              b == Len(o.frames)
              c == Len(behind)
  <2>0. Extends(frames', frames, o.frames, behind)
    BY <1>1, ItExtends
  <2>1. /\ frames' \in Seq(Frame) /\ a \in Nat /\ b \in Nat /\ c \in Nat
        /\ DOMAIN frames = 1 .. a /\ DOMAIN o.frames = 1 .. b /\ DOMAIN behind = 1 .. c
        /\ DOMAIN frames' = 1 .. a + b + c
        /\ \A i \in 1 .. a : frames'[i] = frames[i]
        /\ \A i \in a + 1 .. a + b : frames'[i] = o.frames[i - a]
        /\ \A i \in a + b + 1 .. a + b + c : frames'[i] = behind[i - (a + b)]
    BY <2>0 DEF Extends
  <2>2. \A i \in DOMAIN frames : frames[i].op # "set" => frames[i].pass \in 1 .. made
    BY DEF DoorTypes
  <2>3. ASSUME NEW i \in DOMAIN o.frames
        PROVE  o.frames[i].pass \in 1 .. made'
    <3>1. \/ o.frames[i].pass \in made + 1 .. o.made
          \/ \E p \in Peer \ Deserving(sc) : granted[p] # 0 /\ o.frames[i].pass = granted[p]
      BY DEF Grant, GrantTrue, GrantNews
    <3>2. \A p \in Peer : granted[p] # 0 => granted[p] \in 1 .. made
      BY DEF DoorTypes
    <3>. QED
      BY <1>2, <3>1, <3>2
  <2>4. ASSUME NEW i \in 1 .. c
        PROVE  behind[i].op = "set"
    <3>1. behind[i] \in SetFrame
      BY <1>1, ElementOfSeq DEF c
    <3>. QED
      BY <3>1 DEF SetFrame
  <2>5. \A i \in 1 .. a + b + c :
          /\ i <= a => i \in 1 .. a
          /\ ~(i <= a) /\ i <= a + b => i \in a + 1 .. a + b /\ i - a \in 1 .. b
          /\ ~(i <= a + b) => i \in a + b + 1 .. a + b + c /\ i - (a + b) \in 1 .. c
    BY <2>1
  <2>6. ASSUME NEW i \in 1 .. a + b + c, frames'[i].op # "set"
        PROVE  frames'[i].pass \in 1 .. made'
    <3>1. CASE i <= a
      <4>1. i \in 1 .. a /\ frames'[i] = frames[i]
        BY <2>1, <2>5, <3>1
      <4>2. frames[i].pass \in 1 .. made
        BY <2>1, <2>2, <2>6, <4>1
      <4>. QED
        BY <1>2, <4>1, <4>2
    <3>2. CASE ~(i <= a) /\ i <= a + b
      <4>1. i - a \in 1 .. b /\ frames'[i] = o.frames[i - a]
        BY <2>1, <2>5, <3>2
      <4>. QED
        BY <2>1, <2>3, <4>1
    <3>3. CASE ~(i <= a + b)
      <4>1. i - (a + b) \in 1 .. c /\ frames'[i] = behind[i - (a + b)]
        BY <2>1, <2>5, <3>3
      <4>. QED
        BY <2>4, <2>6, <4>1
    <3>. QED
      BY <3>1, <3>2, <3>3
  <2>. QED
    BY <2>1, <2>6
<1>5. made' \in 0 .. MaxMade /\ granted' \in [Peer -> 0 .. made']
  BY <1>1, DoorAssumption
<1>6. keeps' \in [Peer -> 0 .. made'] /\ box' \in [Peer -> Seq(Nat)] /\ \A p \in Peer : \A i \in DOMAIN box'[p] : box'[p][i] \in 1 .. made'
  BY <1>1, <1>2 DEF DoorTypes
<1>7. passes' \subseteq 1 .. made' /\ broken' \subseteq 1 .. made' /\ Cardinality(passes') <= MaxPasses
  BY <1>1, <1>2 DEF DoorTypes
<1>8. standing' \in [Peer -> Standing] /\ dm' \in Policy
  BY <1>1 DEF DoorTypes
<1>. QED
  BY <1>3, <1>4, <1>5, <1>6, <1>7, <1>8 DEF DoorTypes

LEMMA GrantKeepsOrder ==
  ASSUME DoorTypes, InTurn, NEW o, NEW sc, NEW behind, Grant(o, sc, behind)
  PROVE  InTurn'
<1>. DEFINE a == Len(queue)
            b == Len(o.gifts)
<1>1. /\ queue \in Seq(Gift) /\ o.gifts \in Seq(Gift) /\ queue' = queue \o o.gifts /\ UNCHANGED <<box, keeps>>
      /\ made \in Nat /\ o.made \in Nat
  BY GrantParts
<1>2. a \in Nat /\ b \in Nat /\ DOMAIN queue = 1 .. a /\ DOMAIN o.gifts = 1 .. b
  BY <1>1, LenProperties
<1>3. /\ queue' \in Seq(Gift) /\ Len(queue') = a + b
      /\ \A i \in 1 .. a + b : queue'[i] = IF i <= a THEN queue[i] ELSE o.gifts[i - a]
  BY <1>1, ConcatProperties
<1>4. DOMAIN queue' = 1 .. a + b
  BY <1>3, LenProperties
<1>5. /\ \A i \in DOMAIN o.gifts : o.gifts[i].pass \in made + 1 .. o.made
      /\ \A i, j \in DOMAIN o.gifts : i < j => o.gifts[i].pass < o.gifts[j].pass
  BY DEF Grant, GrantTrue, GrantNews
<1>6. /\ \A i \in DOMAIN queue : queue[i].pass \in 1 .. made
      /\ \A p \in Peer : keeps[p] \in 0 .. made /\ \A j \in DOMAIN box[p] : box[p][j] \in 1 .. made
  BY DEF DoorTypes
<1>. HIDE DEF a, b
<1>7. \A i \in DOMAIN queue' : \/ i <= a /\ i \in DOMAIN queue /\ queue'[i] = queue[i]
                               \/ i > a /\ i - a \in DOMAIN o.gifts /\ queue'[i] = o.gifts[i - a]
  <2>1. \A i \in 1 .. a + b : (i <= a => i \in 1 .. a) /\ (~(i <= a) => i > a /\ i - a \in 1 .. b)
    BY <1>2
  <2>. QED
    BY <1>2, <1>3, <1>4, <2>1
<1>8. ASSUME NEW i \in DOMAIN queue', NEW j \in DOMAIN queue', i < j
      PROVE  queue'[i].pass < queue'[j].pass
  <2>0. i \in Int /\ j \in Int
    BY <1>4
  <2>1. CASE i <= a /\ j <= a
    <3>1. i \in DOMAIN queue /\ j \in DOMAIN queue /\ queue'[i] = queue[i] /\ queue'[j] = queue[j]
      BY <1>2, <1>7, <2>0, <2>1
    <3>. QED
      BY <1>8, <3>1 DEF InTurn
  <2>2. CASE i <= a /\ j > a
    <3>1. i \in DOMAIN queue /\ j - a \in DOMAIN o.gifts /\ queue'[i] = queue[i] /\ queue'[j] = o.gifts[j - a]
      BY <1>2, <1>7, <2>0, <2>2
    <3>2. queue[i].pass \in 1 .. made /\ o.gifts[j - a].pass \in made + 1 .. o.made
      BY <1>5, <1>6, <3>1
    <3>. QED
      BY <1>1, <3>1, <3>2
  <2>3. CASE i > a /\ j > a
    <3>1. i - a \in DOMAIN o.gifts /\ j - a \in DOMAIN o.gifts /\ queue'[i] = o.gifts[i - a] /\ queue'[j] = o.gifts[j - a]
      BY <1>2, <1>7, <2>0, <2>3
    <3>2. i - a < j - a
      BY <1>2, <1>8, <2>0
    <3>. QED
      BY <1>5, <3>1, <3>2
  <2>. QED
    BY <1>2, <1>8, <2>0, <2>1, <2>2, <2>3
<1>9. ASSUME NEW p \in Peer, NEW i \in DOMAIN queue', queue'[i].to = p
      PROVE  keeps[p] < queue'[i].pass /\ \A j \in DOMAIN box[p] : box[p][j] < queue'[i].pass
  <2>1. CASE i \in DOMAIN queue /\ queue'[i] = queue[i]
    BY <1>9, <2>1 DEF InTurn
  <2>2. CASE i - a \in DOMAIN o.gifts /\ queue'[i] = o.gifts[i - a]
    <3>1. queue'[i].pass \in made + 1 .. o.made
      BY <1>5, <2>2
    <3>. QED
      BY <1>1, <1>6, <3>1
  <2>. QED
    BY <1>7, <2>1, <2>2
<1>10. \A p \in Peer :
        /\ \A i, j \in DOMAIN box'[p] : i < j => box'[p][i] < box'[p][j]
        /\ \A i \in DOMAIN box'[p] : keeps'[p] < box'[p][i]
  BY <1>1 DEF InTurn
<1>. QED
  BY <1>1, <1>8, <1>9, <1>10 DEF InTurn

\* Frames to come that only take passes back, or make new ones, leave the others.
LEMMA GrantHonours ==
  ASSUME DoorTypes, NEW o, NEW sc, NEW behind, Grant(o, sc, behind), NEW q,
         \/ Honoured(q, frames, passes) /\ Untold(o.frames, "revoke", q)
         \/ q \in made + 1 .. o.made /\ \E i \in DOMAIN o.frames : Tells(o.frames, i, "create", q)
  PROVE  Honoured(q, frames, passes)'
<1>1. /\ frames \in Seq(Frame) /\ o.frames \in Seq(PassFrame) /\ behind \in Seq(SetFrame)
      /\ frames' = frames \o o.frames \o behind /\ passes' = passes
  BY GrantParts
<1>2. q \in made + 1 .. o.made => Untold(o.frames, "revoke", q) /\ Untold(frames, "revoke", q)
  BY NewsIsNew
<1>3. Honoured(q, frames \o o.frames \o behind, passes)
  BY <1>1, <1>2, HonouredMore
<1>. QED
  BY <1>1, <1>3 DEF Honoured

LEMMA GrantWithdraws ==
  ASSUME DoorTypes, NEW o, NEW sc, NEW behind, Grant(o, sc, behind), NEW q \in 0 .. made,
         Withdrawn(q, frames, passes) \/ \E i \in DOMAIN o.frames : Tells(o.frames, i, "revoke", q)
  PROVE  Withdrawn(q, frames, passes)'
<1>1. /\ frames \in Seq(Frame) /\ o.frames \in Seq(PassFrame) /\ behind \in Seq(SetFrame)
      /\ frames' = frames \o o.frames \o behind /\ passes' = passes
  BY GrantParts
<1>2. Untold(o.frames, "create", q)
  BY NewsIsNew
<1>3. Withdrawn(q, frames \o o.frames \o behind, passes)
  BY <1>1, <1>2, WithdrawnMore
<1>. QED
  BY <1>1, <1>3 DEF Withdrawn

\* The book is recorded: the three sorts of peers.
LEMMA WholeKeepsBook ==
  ASSUME DoorTypes, BookInv, NEW o, NEW sc, NEW behind, Grant(o, sc, behind), o.whole, NEW p \in Peer
  PROVE  InBook(p)'
<1>1. /\ made \in Nat /\ o.made \in Nat /\ made <= o.made /\ made' = o.made /\ granted' = o.granted
      /\ granted \in [Peer -> 0 .. made] /\ broken' = broken \union o.broken
  BY GrantParts
<1>2. broken' = broken /\ Settled(o, sc, p)
  BY <1>1 DEF Grant, GrantTrue
<1>3. /\ granted[p] \notin {0} \union broken => Given(granted[p], p) /\ Honoured(granted[p], frames, passes)
      /\ granted[p] # 0 => \A q \in 1 .. made : Given(q, p) => q <= granted[p]
      /\ \A q \in 1 .. made : Given(q, p) /\ q \notin {granted[p]} \union broken => Withdrawn(q, frames, passes)
      /\ \A r \in Peer : p # r /\ granted[p] # 0 => granted[p] # granted[r]
  BY DEF BookInv, InBook
<1>4. \A r \in Peer : p # r /\ granted'[p] # 0 => granted'[p] # granted'[r]
  BY <1>1, <1>2 DEF Settled
<1>5. ASSUME \A i \in DOMAIN o.gifts : o.gifts[i].to # p, NEW q \in 1 .. made', Given(q, p)'
      PROVE  Given(q, p) /\ q \in 1 .. made
  <2>1. Given(q, p)
    BY <1>5, GivenAfter
  <2>2. q \in 0 .. made
    BY <2>1, GivenAfter
  <2>. QED
    BY <1>1, <2>1, <2>2
<1>6. CASE p \in Deserving(sc) /\ granted[p] # 0
  <2>1. o.granted[p] = granted[p] /\ \A i \in DOMAIN o.gifts : o.gifts[i].to # p
    BY <1>2, <1>6 DEF Settled
  <2>0. PICK x \in 1 .. made : x = granted[p]
    BY <1>1, <1>6
  <2>2. Untold(o.frames, "revoke", x)
    <3>1. ASSUME NEW r \in Peer \ Deserving(sc), granted[r] # 0, granted[p] = granted[r]
          PROVE  FALSE
      BY <1>3, <1>6, <3>1
    <3>. QED
      BY <2>0, <3>1, NewsIsNew
  <2>3. x \notin broken' => Given(x, p)' /\ Honoured(x, frames, passes)'
    <3>1. x \notin broken' => Given(x, p) /\ Honoured(x, frames, passes)
      BY <1>2, <1>3, <1>6, <2>0
    <3>. QED
      BY <2>2, <3>1, GivenAfter, GrantHonours
  <2>4. \A q \in 1 .. made' : Given(q, p)' => q <= granted'[p]
    BY <1>1, <1>3, <1>5, <1>6, <2>1
  <2>5. ASSUME NEW q \in 1 .. made', Given(q, p)', q \notin {granted'[p]} \union broken'
        PROVE  Withdrawn(q, frames, passes)'
    <3>1. Given(q, p) /\ q \in 1 .. made
      BY <1>5, <2>1, <2>5
    <3>2. Withdrawn(q, frames, passes)
      BY <1>1, <1>2, <1>3, <2>1, <2>5, <3>1
    <3>. QED
      BY <1>1, <3>1, <3>2, GrantWithdraws
  <2>. QED
    BY <1>1, <1>4, <2>0, <2>1, <2>3, <2>4, <2>5 DEF InBook
<1>7. CASE p \in Deserving(sc) /\ granted[p] = 0
  <2>1. /\ o.granted[p] \in made + 1 .. o.made
        /\ \E i \in DOMAIN o.frames : Tells(o.frames, i, "create", o.granted[p])
        /\ \E i \in DOMAIN o.gifts : o.gifts[i].to = p /\ o.gifts[i].pass = o.granted[p]
        /\ \A i \in DOMAIN o.gifts : o.gifts[i].to = p => o.gifts[i].pass = o.granted[p]
    BY <1>2, <1>7 DEF Settled
  <2>. DEFINE x == o.granted[p]
  <2>2. Given(x, p)'
    BY <2>1, GivenAfter
  <2>3. Honoured(x, frames, passes)'
    BY <2>1, GrantHonours
  <2>4. ASSUME NEW q \in 1 .. made', Given(q, p)', q # x
        PROVE  Given(q, p) /\ q \in 1 .. made
    <3>1. Given(q, p)
      BY <2>1, <2>4, GivenAfter
    <3>2. q \in 0 .. made
      BY <3>1, GivenAfter
    <3>. QED
      BY <1>1, <3>1, <3>2
  <2>5. \A q \in 1 .. made' : Given(q, p)' => q <= x
    BY <1>1, <2>1, <2>4
  <2>6. ASSUME NEW q \in 1 .. made', Given(q, p)', q \notin {x} \union broken'
        PROVE  Withdrawn(q, frames, passes)'
    <3>1. Given(q, p) /\ q \in 1 .. made
      BY <2>4, <2>6
    <3>2. Withdrawn(q, frames, passes)
      BY <1>1, <1>2, <1>3, <1>7, <2>6, <3>1
    <3>. QED
      BY <1>1, <3>1, <3>2, GrantWithdraws
  <2>. QED
    BY <1>1, <1>4, <2>2, <2>3, <2>5, <2>6 DEF InBook
<1>8. CASE p \notin Deserving(sc)
  <2>1. /\ o.granted[p] = 0 /\ \A i \in DOMAIN o.gifts : o.gifts[i].to # p
        /\ granted[p] # 0 => \E i \in DOMAIN o.frames : Tells(o.frames, i, "revoke", granted[p])
    BY <1>2, <1>8 DEF Settled
  <2>2. ASSUME NEW q \in 1 .. made', Given(q, p)', q \notin broken'
        PROVE  Withdrawn(q, frames, passes)'
    <3>1. Given(q, p) /\ q \in 1 .. made /\ q \in 0 .. made /\ q # 0
      BY <1>1, <1>5, <2>1, <2>2
    <3>2. ASSUME q = granted[p]
          PROVE  \E i \in DOMAIN o.frames : Tells(o.frames, i, "revoke", q)
      BY <2>1, <3>1, <3>2
    <3>3. ASSUME q # granted[p]
          PROVE  Withdrawn(q, frames, passes)
      BY <1>2, <1>3, <2>2, <3>1, <3>3
    <3>. QED
      BY <3>1, <3>2, <3>3, GrantWithdraws
  <2>. QED
    BY <1>1, <1>4, <2>1, <2>2 DEF InBook
<1>. QED
  BY <1>6, <1>7, <1>8

\* Nothing is recorded, and all that was sent is broken.
LEMMA CutKeepsBook ==
  ASSUME DoorTypes, BookInv, NEW o, NEW sc, NEW behind, Grant(o, sc, behind), ~o.whole, NEW p \in Peer
  PROVE  InBook(p)'
<1>1. /\ made \in Nat /\ o.made \in Nat /\ made <= o.made /\ made' = o.made /\ granted' = o.granted
      /\ granted \in [Peer -> 0 .. made] /\ broken' = broken \union o.broken
  BY GrantParts
<1>2. WasCut(o)
  BY DEF Grant, GrantTrue
<1>3. /\ granted[p] \notin {0} \union broken => Given(granted[p], p) /\ Honoured(granted[p], frames, passes)
      /\ granted[p] # 0 => \A q \in 1 .. made : Given(q, p) => q <= granted[p]
      /\ \A q \in 1 .. made : Given(q, p) /\ q \notin {granted[p]} \union broken => Withdrawn(q, frames, passes)
      /\ \A r \in Peer : p # r /\ granted[p] # 0 => granted[p] # granted[r]
  BY DEF BookInv, InBook
<1>4. PICK x \in 0 .. made : x = granted[p]
  BY <1>1
<1>5. granted'[p] = x /\ \A r \in Peer : granted'[r] = granted[r]
  BY <1>1, <1>2, <1>4 DEF WasCut
<1>6. ASSUME x \notin {0} \union broken'
      PROVE  Given(x, p)' /\ Honoured(x, frames, passes)'
  <2>1. Given(x, p) /\ Honoured(x, frames, passes)
    BY <1>1, <1>3, <1>4, <1>6
  <2>2. Untold(o.frames, "revoke", x)
    BY <1>1, <1>2, <1>6 DEF WasCut, Untold, Tells
  <2>. QED
    BY <2>1, <2>2, GivenAfter, GrantHonours
<1>7. ASSUME NEW q \in 1 .. made', Given(q, p)', x # 0 \/ q \notin broken'
      PROVE  Given(q, p) /\ q \in 1 .. made
  <2>1. Given(q, p)
    <3>1. ASSUME NEW i \in DOMAIN o.gifts, o.gifts[i].to = p, o.gifts[i].pass = q
          PROVE  FALSE
      BY <1>1, <1>2, <1>4, <1>7, <3>1 DEF WasCut
    <3>. QED
      BY <1>7, <3>1, GivenAfter
  <2>2. q \in 0 .. made
    BY <2>1, GivenAfter
  <2>. QED
    BY <1>1, <2>1, <2>2
<1>8. x # 0 => \A q \in 1 .. made' : Given(q, p)' => q <= x
  BY <1>3, <1>4, <1>7
<1>9. ASSUME NEW q \in 1 .. made', Given(q, p)', q \notin {x} \union broken'
      PROVE  Withdrawn(q, frames, passes)'
  <2>1. Given(q, p) /\ q \in 1 .. made /\ q \in 0 .. made
    BY <1>1, <1>7, <1>9
  <2>2. Withdrawn(q, frames, passes)
    BY <1>1, <1>3, <1>4, <1>9, <2>1
  <2>. QED
    BY <2>1, <2>2, GrantWithdraws
<1>10. \A r \in Peer : p # r /\ x # 0 => x # granted'[r]
  BY <1>3, <1>4, <1>5
<1>. QED
  BY <1>5, <1>6, <1>8, <1>9, <1>10 DEF InBook

LEMMA GrantKeepsBook ==
  ASSUME DoorTypes, BookInv, NEW o, NEW sc, NEW behind, Grant(o, sc, behind)
  PROVE  BookInv'
<1>1. ASSUME NEW p \in Peer
      PROVE  InBook(p)'
  BY WholeKeepsBook, CutKeepsBook
<1>. QED
  BY <1>1 DEF BookInv

\* The policies on their way: those from before, and the one behind the passes.
LEMMA GrantKeepsSets ==
  ASSUME DoorTypes, BookInv, SetsInv, NEW o, NEW sc, NEW behind, Grant(o, sc, behind)
  PROVE  SetsInv'
<1>1. /\ made \in Nat /\ o.made \in Nat /\ granted' = o.granted /\ broken' = broken \union o.broken
      /\ frames \in Seq(Frame) /\ o.frames \in Seq(PassFrame) /\ behind \in Seq(SetFrame)
      /\ frames' = frames \o o.frames \o behind /\ passes' = passes
  BY GrantParts
<1>. DEFINE a == Len(frames)
            b == Len(o.frames)
            c == Len(behind)
<1>2. Extends(frames', frames, o.frames, behind)
  BY <1>1, ItExtends
<1>3. /\ a \in Nat /\ b \in Nat /\ c \in Nat
      /\ DOMAIN frames = 1 .. a /\ DOMAIN o.frames = 1 .. b /\ DOMAIN behind = 1 .. c
      /\ DOMAIN frames' = 1 .. a + b + c
      /\ \A i \in 1 .. a : frames'[i] = frames[i]
      /\ \A i \in a + 1 .. a + b : frames'[i] = o.frames[i - a]
      /\ \A i \in a + b + 1 .. a + b + c : frames'[i] = behind[i - (a + b)]
  BY <1>2 DEF Extends
<1>4. \A d : \A j \in DOMAIN frames : Tells(frames, j, "create", d) => j \in DOMAIN frames' /\ Tells(frames', j, "create", d)
  BY <1>1, ToldAfter
<1>5. \A d : \A j \in DOMAIN frames' :
        /\ Tells(frames', j, "create", d) => j <= a + b
        /\ Tells(frames', j, "revoke", d) => (j \in DOMAIN frames /\ Tells(frames, j, "revoke", d)) \/ j > a
  <2>1. ASSUME NEW d, NEW j \in DOMAIN frames', NEW op \in {"create", "revoke"}, Tells(frames', j, op, d)
        PROVE  \/ j \in DOMAIN frames /\ Tells(frames, j, op, d)
               \/ j > a /\ j <= a + b
    BY <1>1, <2>1, ToldAfter, ZenonT(60)
  <2>2. \A j \in DOMAIN frames : j <= a + b
    BY <1>3
  <2>. QED
    BY <2>1, <2>2
<1>6. BookInv'
  BY GrantKeepsBook
<1>7. \A i \in DOMAIN o.frames : o.frames[i].op # "set"
  BY DEF Grant, GrantTrue, GrantNews
<1>8. \A i \in DOMAIN behind : behind[i].due = Due(o, sc)
  BY DEF Grant
<1>. HIDE DEF a, b, c
<1>9. ASSUME NEW i \in 1 .. a, frames'[i].op = "set", NEW d \in frames'[i].due
      PROVE  Kept(frames', passes', broken', i, d)
  <2>1. i \in DOMAIN frames /\ Kept(frames, passes, broken, i, d)
    BY <1>3, <1>9 DEF SetsInv
  <2>2. CASE d \in broken
    BY <1>1, <2>2 DEF Kept
  <2>3. CASE /\ d \in passes \/ \E j \in DOMAIN frames : j < i /\ Tells(frames, j, "create", d)
             /\ \A j \in DOMAIN frames : Tells(frames, j, "revoke", d) => i < j
    <3>1. d \in passes' \/ \E j \in DOMAIN frames' : j < i /\ Tells(frames', j, "create", d)
      BY <1>1, <1>4, <2>3
    <3>2. \A j \in DOMAIN frames' : Tells(frames', j, "revoke", d) => i < j
      <4>1. \A j \in DOMAIN frames' : j > a => i < j
        BY <1>3
      <4>. QED
        BY <1>5, <2>3, <4>1
    <3>. QED
      BY <3>1, <3>2 DEF Kept
  <2>. QED
    BY <2>1, <2>2, <2>3 DEF Kept
<1>10. ASSUME NEW d \in Due(o, sc)
       PROVE  d \in broken' \/ Honoured(d, frames', passes')
  <2>1. PICK p \in Deserving(sc) : d = o.granted[p]
    BY DEF Due
  <2>2. p \in Peer
    BY DEF Deserving
  <2>3. CASE o.whole
    <3>1. Settled(o, sc, p)
      BY <2>2, <2>3 DEF Grant, GrantTrue
    <3>2. d # 0
      BY <1>1, <2>1, <3>1 DEF Settled
    <3>. QED
      BY <1>1, <1>6, <2>1, <2>2, <3>2 DEF BookInv, InBook
  <2>4. CASE ~o.whole
    <3>1. d # 0
      BY <2>4 DEF Due
    <3>. QED
      BY <1>1, <1>6, <2>1, <2>2, <3>1 DEF BookInv, InBook
  <2>. QED
    BY <2>3, <2>4
<1>11. ASSUME NEW i \in a + b + 1 .. a + b + c, NEW d \in frames'[i].due
       PROVE  Kept(frames', passes', broken', i, d)
  <2>1. i - (a + b) \in 1 .. c
    BY <1>3
  <2>2. d \in Due(o, sc)
    BY <1>3, <1>8, <1>11, <2>1
  <2>3. CASE d \in broken'
    BY <2>3 DEF Kept
  <2>4. CASE Honoured(d, frames', passes')
    <3>1. \A j \in DOMAIN frames' : j <= a + b => j < i
      BY <1>3
    <3>2. d \in passes' \/ \E j \in DOMAIN frames' : j < i /\ Tells(frames', j, "create", d)
      BY <1>5, <2>4, <3>1 DEF Honoured
    <3>. QED
      BY <2>4, <3>2 DEF Honoured, Kept
  <2>. QED
    BY <1>10, <2>2, <2>3, <2>4
<1>12. ASSUME NEW i \in DOMAIN frames', frames'[i].op = "set"
       PROVE  i \in 1 .. a \/ i \in a + b + 1 .. a + b + c
  <2>1. \/ i \in 1 .. a \/ i \in a + b + 1 .. a + b + c
        \/ i \in a + 1 .. a + b /\ i - a \in 1 .. b
    BY <1>3
  <2>. QED
    BY <1>3, <1>7, <1>12, <2>1
<1>. QED
  BY <1>9, <1>11, <1>12 DEF SetsInv

LEMMA GrantKeeps ==
  ASSUME DoorInv, NEW o, NEW sc, NEW behind, Grant(o, sc, behind),
         scope' \in Scope, policy' \in Policy, online' \in BOOLEAN
  PROVE  DoorInv'
BY GrantKeepsTypes, GrantKeepsOrder, GrantKeepsBook, GrantKeepsSets DEF DoorInv

LEMMA GrantingKeeps ==
  ASSUME DoorInv, NEW sc, NEW o \in Grants(sc), NEW pol \in Policy, NEW behind,
         behind = << >> \/ behind = <<[op |-> "set", policy |-> pol, due |-> Due(o, sc)]>>,
         Granting(o, behind), UNCHANGED <<standing, dm, passes, box, keeps>>,
         scope' \in Scope, policy' \in Policy, online' \in BOOLEAN
  PROVE  DoorInv'
<1>1. GrantTrue(o, sc)
  BY GrantsAreTrue DEF DoorInv
<1>2. Due(o, sc) \subseteq Nat
  <2>1. o.granted \in [Peer -> 0 .. o.made] /\ o.made \in Nat /\ Deserving(sc) \subseteq Peer
    BY <1>1 DEF GrantTrue, GrantTypes, Deserving
  <2>. QED
    BY <2>1 DEF Due
<1>3. behind \in Seq(SetFrame) /\ \A i \in DOMAIN behind : behind[i].due = Due(o, sc)
  <2>1. CASE behind = << >>
    BY <2>1
  <2>2. CASE behind = <<[op |-> "set", policy |-> pol, due |-> Due(o, sc)]>>
    <3>1. [op |-> "set", policy |-> pol, due |-> Due(o, sc)] \in SetFrame
      BY <1>2 DEF SetFrame
    <3>. QED
      BY <2>2, <3>1
  <2>. QED
    BY <2>1, <2>2
<1>4. Grant(o, sc, behind)
  BY <1>1, <1>3 DEF Grant
<1>. QED
  BY <1>4, GrantKeeps

LEMMA ClosingKeeps ==
  ASSUME DoorInv, NEW sc, NEW o \in Grants(sc), NEW pol \in Policy, Closing(o, sc, pol),
         UNCHANGED <<standing, dm, passes, box, keeps>>, scope' \in Scope, online' \in BOOLEAN
  PROVE  DoorInv'
<1>1. Granting(o, <<[op |-> "set", policy |-> pol, due |-> Due(o, sc)]>>) /\ policy' \in Policy
  BY DEF Closing
<1>. QED
  BY <1>1, GrantingKeeps

LEMMA BreakingKeeps ==
  ASSUME DoorInv, NEW sc, NEW o \in Grants(sc), Breaking(o),
         UNCHANGED <<standing, dm, passes, box, keeps>>, scope' \in Scope
  PROVE  DoorInv'
<1>1. Granting(o, << >>) /\ online' = FALSE /\ policy' = policy /\ policy \in Policy
  BY DEF Breaking, DoorInv, DoorTypes
<1>2. online' \in BOOLEAN
  BY <1>1, Zenon
<1>. QED
  BY <1>1, <1>2, GrantingKeeps

\* A step that leaves the book, the frames and the gifts alone.
LEMMA QuietDoor ==
  ASSUME DoorInv, UNCHANGED <<granted, made, queue, frames, passes, box, keeps, broken, dm>>,
         standing' \in [Peer -> Standing], scope' \in Scope, policy' \in Policy, online' \in BOOLEAN
  PROVE  DoorInv'
<1>1. DoorTypes'
  BY DEF DoorInv, DoorTypes
<1>2. InTurn'
  BY DEF DoorInv, InTurn
<1>3. BookInv'
  <2>1. ASSUME NEW p \in Peer
        PROVE  InBook(p)'
    BY DEF DoorInv, BookInv, InBook, Given, Honoured, Withdrawn
  <2>. QED
    BY <2>1 DEF BookInv
<1>4. SetsInv'
  BY DEF DoorInv, SetsInv, Kept
<1>. QED
  BY <1>1, <1>2, <1>3, <1>4 DEF DoorInv

LEMMA WantedIsPolicy ==
  ASSUME NEW sc
  PROVE  Wanted(sc) \in Policy
BY DEF Wanted, Policy

LEMMA ConnectKeeps ==
  ASSUME DoorInv, Connect
  PROVE  DoorInv'
<1>1. UNCHANGED <<standing, scope, dm, passes, box, keeps>>
  BY DEF Connect, relay
<1>2. scope' \in Scope /\ policy \in Policy
  BY <1>1 DEF DoorInv, DoorTypes
<1>3. PICK o \in Grants(scope) :
        \/ /\ online' = TRUE
           /\ IF scope = "unset" THEN Granting(o, << >>) /\ UNCHANGED policy
              ELSE Closing(o, scope, Wanted(scope))
        \/ Breaking(o)
  BY DEF Connect
<1>4. ASSUME online' = TRUE, scope = "unset", Granting(o, << >>), UNCHANGED policy
      PROVE  DoorInv'
  <2>1. online' \in BOOLEAN
    BY <1>4, Zenon
  <2>. QED
    BY <1>1, <1>2, <1>4, <2>1, GrantingKeeps
<1>5. ASSUME online' = TRUE, Closing(o, scope, Wanted(scope))
      PROVE  DoorInv'
  <2>1. online' \in BOOLEAN
    BY <1>5, Zenon
  <2>. QED
    BY <1>1, <1>2, <1>5, <2>1, ClosingKeeps, WantedIsPolicy
<1>6. ASSUME Breaking(o)
      PROVE  DoorInv'
  BY <1>1, <1>2, <1>6, BreakingKeeps
<1>. QED
  BY <1>3, <1>4, <1>5, <1>6

LEMMA ReconcileKeeps ==
  ASSUME DoorInv, Reconcile
  PROVE  DoorInv'
<1>1. UNCHANGED <<standing, scope, policy, online, dm, passes, box, keeps>>
  BY DEF Reconcile, relay
<1>2. scope' \in Scope /\ policy \in Policy /\ policy' \in Policy /\ online' \in BOOLEAN
  BY <1>1 DEF DoorInv, DoorTypes
<1>3. PICK o \in Grants(scope) : Granting(o, << >>)
  BY DEF Reconcile
<1>. QED
  BY <1>1, <1>2, <1>3, GrantingKeeps

LEMMA PrivacySetKeeps ==
  ASSUME DoorInv, NEW sc \in Scope \ {"unset"}, PrivacySet(sc)
  PROVE  DoorInv'
<1>1. UNCHANGED <<standing, dm, passes, box, keeps>> /\ scope' \in Scope
  BY DEF PrivacySet, relay
<1>2. policy \in Policy /\ online \in BOOLEAN /\ standing \in [Peer -> Standing]
  BY DEF DoorInv, DoorTypes
<1>3. CASE online
  <2>1. PICK o \in Grants(sc) : \/ o.whole /\ Closing(o, sc, Wanted(sc)) /\ UNCHANGED online
                                \/ Breaking(o)
    BY <1>3 DEF PrivacySet
  <2>2. ASSUME Closing(o, sc, Wanted(sc)), UNCHANGED online
        PROVE  DoorInv'
    BY <1>1, <1>2, <2>2, ClosingKeeps, WantedIsPolicy
  <2>3. ASSUME Breaking(o)
        PROVE  DoorInv'
    BY <1>1, <2>3, BreakingKeeps
  <2>. QED
    BY <2>1, <2>2, <2>3
<1>4. CASE ~online
  <2>1. UNCHANGED <<policy, granted, made, queue, online, frames, broken>>
    BY <1>4 DEF PrivacySet
  <2>. QED
    BY <1>1, <1>2, <2>1, QuietDoor
<1>. QED
  BY <1>3, <1>4

LEMMA AccessSetKeeps ==
  ASSUME DoorInv, NEW pol \in Policy, AccessSet(pol)
  PROVE  DoorInv'
<1>1. UNCHANGED <<standing, scope, dm, passes, box, keeps>>
  BY DEF AccessSet, relay
<1>2. scope' \in Scope /\ online \in BOOLEAN
  BY <1>1 DEF DoorInv, DoorTypes
<1>3. PICK o \in Grants(scope) : \/ Closing(o, scope, pol) /\ UNCHANGED online
                                 \/ Breaking(o)
  BY DEF AccessSet
<1>4. ASSUME Closing(o, scope, pol), UNCHANGED online
      PROVE  DoorInv'
  BY <1>1, <1>2, <1>4, ClosingKeeps
<1>5. ASSUME Breaking(o)
      PROVE  DoorInv'
  BY <1>1, <1>2, <1>5, BreakingKeeps
<1>. QED
  BY <1>3, <1>4, <1>5

\* One frame written.
LEMMA OneMore ==
  ASSUME NEW fs \in Seq(Frame), NEW r \in PassFrame
  PROVE  /\ <<r>> \in Seq(PassFrame) /\ << >> \in Seq(SetFrame)
         /\ DOMAIN <<r>> = {1} /\ <<r>>[1] = r
         /\ Append(fs, r) = fs \o <<r>> \o << >>
<1>1. r \in Frame /\ <<r>> \in Seq(Frame)
  BY DEF Frame
<1>2. Append(fs, r) = fs \o <<r>> /\ fs \o <<r>> \in Seq(Frame)
  BY <1>1, AppendIsConcat
<1>3. fs \o <<r>> \o << >> = fs \o <<r>>
  BY <1>2, ConcatEmptySeq
<1>. QED
  BY <1>2, <1>3

\* One pass is taken back.
LEMMA PassRevokeKeeps ==
  ASSUME DoorInv, NEW p \in Peer, PassRevoke(p)
  PROVE  DoorInv'
<1>1. /\ made \in Nat /\ made \in 0 .. MaxMade /\ granted \in [Peer -> 0 .. made] /\ frames \in Seq(Frame)
      /\ granted[p] # 0
      /\ UNCHANGED <<standing, scope, policy, made, queue, online, dm, passes, box, keeps, broken>>
  BY DEF PassRevoke, relay, DoorInv, DoorTypes
<1>2. PICK x \in 1 .. made : x = granted[p]
  BY <1>1
<1>. DEFINE r == [op |-> "revoke", pass |-> x]
<1>3. frames' = Append(frames, r) /\ granted' = [granted EXCEPT ![p] = 0]
  BY <1>2 DEF PassRevoke
<1>4. r \in PassFrame /\ r.op = "revoke" /\ r.pass = x
  BY <1>1 DEF PassFrame
<1>. HIDE DEF r
<1>5. /\ <<r>> \in Seq(PassFrame) /\ << >> \in Seq(SetFrame)
      /\ DOMAIN <<r>> = {1} /\ <<r>>[1] = r
      /\ frames' = frames \o <<r>> \o << >>
  BY <1>1, <1>3, <1>4, OneMore
<1>6. /\ \A q : Untold(<<r>>, "create", q)
      /\ \A q : q # x => Untold(<<r>>, "revoke", q)
      /\ \E i \in DOMAIN <<r>> : Tells(<<r>>, i, "revoke", x)
  BY <1>4, <1>5 DEF Untold, Tells
<1>7. DoorTypes'
  <2>1. granted' \in [Peer -> 0 .. made']
    BY <1>1, <1>3
  <2>2. frames' \in Seq(Frame) /\ \A i \in DOMAIN frames' : frames'[i].op # "set" => frames'[i].pass \in 1 .. made'
    <3>1. r \in Frame
      BY <1>4 DEF Frame
    <3>2. /\ frames' \in Seq(Frame) /\ DOMAIN frames' = 1 .. Len(frames) + 1
          /\ \A i \in 1 .. Len(frames) : frames'[i] = frames[i]
          /\ frames'[Len(frames) + 1] = r
      BY <1>1, <1>3, <3>1, AppendProperties, LenProperties
    <3>3. \A i \in 1 .. Len(frames) + 1 : i \in 1 .. Len(frames) \/ i = Len(frames) + 1
      BY <1>1, LenProperties
    <3>4. \A i \in 1 .. Len(frames) : frames[i].op # "set" => frames[i].pass \in 1 .. made
      BY <1>1, LenProperties DEF DoorInv, DoorTypes
    <3>. QED
      BY <1>1, <1>4, <3>2, <3>3, <3>4
  <2>. QED
    BY <1>1, <2>1, <2>2 DEF DoorInv, DoorTypes
<1>8. InTurn'
  BY <1>1 DEF DoorInv, InTurn
<1>9. \A y : Honoured(y, frames, passes) /\ y # x => Honoured(y, frames', passes')
  BY <1>1, <1>5, <1>6, HonouredMore
<1>10. \A y : Withdrawn(y, frames, passes) \/ y = x => Withdrawn(y, frames', passes')
  BY <1>1, <1>5, <1>6, WithdrawnMore
<1>11. ASSUME NEW s \in Peer
       PROVE  InBook(s)'
  <2>1. /\ granted[s] \notin {0} \union broken => Given(granted[s], s) /\ Honoured(granted[s], frames, passes)
        /\ granted[s] # 0 => \A q \in 1 .. made : Given(q, s) => q <= granted[s]
        /\ \A q \in 1 .. made : Given(q, s) /\ q \notin {granted[s]} \union broken => Withdrawn(q, frames, passes)
        /\ \A t \in Peer : s # t /\ granted[s] # 0 => granted[s] # granted[t]
    BY DEF DoorInv, BookInv, InBook
  <2>2. \A q : Given(q, s)' = Given(q, s)
    BY <1>1 DEF Given
  <2>3. CASE s = p
    <3>1. granted'[s] = 0
      BY <1>1, <1>3, <2>3
    <3>2. \A q \in 1 .. made' : Given(q, s)' /\ q \notin {0} \union broken' => Withdrawn(q, frames', passes')
      BY <1>1, <1>2, <1>10, <2>1, <2>2, <2>3
    <3>. QED
      BY <3>1, <3>2 DEF InBook
  <2>4. CASE s # p
    <3>1. PICK y \in 0 .. made : y = granted[s]
      BY <1>1
    <3>2. granted'[s] = y
      BY <1>1, <1>3, <2>4, <3>1
    <3>3. y # 0 => y # x
      BY <1>2, <2>1, <2>4, <3>1
    <3>4. y \notin {0} \union broken' => Given(y, s)' /\ Honoured(y, frames', passes')
      BY <1>1, <1>9, <2>1, <2>2, <3>1, <3>3
    <3>5. y # 0 => \A q \in 1 .. made' : Given(q, s)' => q <= y
      BY <1>1, <2>1, <2>2, <3>1
    <3>6. \A q \in 1 .. made' : Given(q, s)' /\ q \notin {y} \union broken' => Withdrawn(q, frames', passes')
      BY <1>1, <1>10, <2>1, <2>2, <3>1
    <3>7. \A t \in Peer : s # t /\ y # 0 => y # granted'[t]
      BY <1>1, <1>3, <2>1, <3>1
    <3>. QED
      BY <3>2, <3>4, <3>5, <3>6, <3>7 DEF InBook
  <2>. QED
    BY <2>3, <2>4
<1>12. SetsInv'
  <2>1. Extends(frames', frames, <<r>>, << >>)
    BY <1>1, <1>5, ItExtends
  <2>2. /\ Len(frames) \in Nat /\ DOMAIN frames = 1 .. Len(frames) /\ DOMAIN frames' = 1 .. Len(frames) + 1
        /\ \A i \in 1 .. Len(frames) : frames'[i] = frames[i]
        /\ frames'[Len(frames) + 1] = r
    <3>1. Len(<<r>>) = 1 /\ Len(<< >>) = 0
      OBVIOUS
    <3>. QED
      BY <1>5, <2>1, <3>1 DEF Extends
  <2>3. \A i \in DOMAIN frames' : i \in 1 .. Len(frames) \/ i = Len(frames) + 1
    BY <2>2
  <2>4. ASSUME NEW i \in DOMAIN frames', frames'[i].op = "set", NEW d \in frames'[i].due
        PROVE  Kept(frames', passes', broken', i, d)
    <3>1. i \in 1 .. Len(frames) /\ frames'[i] = frames[i]
      BY <1>4, <2>2, <2>3, <2>4
    <3>2. Kept(frames, passes, broken, i, d)
      BY <2>2, <2>4, <3>1 DEF DoorInv, SetsInv
    <3>3. \A j \in DOMAIN frames : Tells(frames, j, "create", d) => j \in DOMAIN frames' /\ Tells(frames', j, "create", d)
      BY <2>2, <2>3 DEF Tells
    <3>4. \A j \in DOMAIN frames' : Tells(frames', j, "revoke", d) => (j \in DOMAIN frames /\ Tells(frames, j, "revoke", d)) \/ i < j
      BY <2>2, <2>3, <3>1 DEF Tells
    <3>. QED
      BY <1>1, <3>2, <3>3, <3>4 DEF Kept
  <2>. QED
    BY <2>4 DEF SetsInv
<1>. QED
  BY <1>7, <1>8, <1>11, <1>12 DEF DoorInv, BookInv

\* The frames are lost: whatever they spoke of is broken.
LEMMA LoseKeeps ==
  ASSUME DoorInv, Lose
  PROVE  DoorInv'
<1>1. /\ UNCHANGED <<standing, scope, policy, granted, made, queue, online, dm, passes, box, keeps>>
      /\ frames' = << >>
      /\ broken' = broken \union {frames[i].pass : i \in {j \in DOMAIN frames : frames[j].op # "set"}}
  BY DEF Lose, client, relay
<1>2. \A op \in {"create", "revoke"} : \A q : \A i \in DOMAIN frames : Tells(frames, i, op, q) => q \in broken'
  BY <1>1 DEF Tells
<1>3. DoorTypes'
  <2>1. broken' \subseteq 1 .. made'
    BY <1>1 DEF DoorInv, DoorTypes
  <2>. QED
    BY <1>1, <2>1 DEF DoorInv, DoorTypes
<1>4. InTurn'
  BY <1>1 DEF DoorInv, InTurn
<1>5. DOMAIN frames' = {}
  BY <1>1
<1>6. \A q : Honoured(q, frames, passes) /\ q \notin broken' => Honoured(q, frames', passes')
  BY <1>1, <1>2, <1>5 DEF Honoured
<1>7. \A q : Withdrawn(q, frames, passes) /\ q \notin broken' => Withdrawn(q, frames', passes')
  BY <1>1, <1>2, <1>5 DEF Withdrawn
<1>8. ASSUME NEW s \in Peer
      PROVE  InBook(s)'
  <2>1. \A q : Given(q, s)' = Given(q, s)
    BY <1>1 DEF Given
  <2>2. granted' = granted /\ made' = made /\ broken \subseteq broken'
    BY <1>1
  <2>3. PICK y : y = granted[s]
    OBVIOUS
  <2>4. /\ y \notin {0} \union broken => Given(y, s) /\ Honoured(y, frames, passes)
        /\ y # 0 => \A q \in 1 .. made : Given(q, s) => q <= y
        /\ \A q \in 1 .. made : Given(q, s) /\ q \notin {y} \union broken => Withdrawn(q, frames, passes)
        /\ \A r \in Peer : s # r /\ y # 0 => y # granted[r]
    BY <2>3 DEF DoorInv, BookInv, InBook
  <2>. QED
    BY <1>6, <1>7, <2>1, <2>2, <2>3, <2>4 DEF InBook
<1>9. SetsInv'
  BY <1>5 DEF SetsInv
<1>. QED
  BY <1>3, <1>4, <1>8, <1>9 DEF DoorInv, BookInv

-----------------------------------------------------------------------------
(* The relay reads a frame.                                                  *)

\* The frames behind the first one.
LEMMA ToldRead ==
  ASSUME NEW fs \in Seq(Frame), fs # << >>
  PROVE  /\ Tail(fs) \in Seq(Frame) /\ Head(fs) = fs[1] /\ Len(fs) \in Nat \ {0}
         /\ DOMAIN fs = 1 .. Len(fs) /\ DOMAIN Tail(fs) = 1 .. Len(fs) - 1
         /\ \A i \in DOMAIN Tail(fs) : i + 1 \in DOMAIN fs /\ Tail(fs)[i] = fs[i + 1]
         /\ \A i \in DOMAIN fs : i # 1 => i - 1 \in DOMAIN Tail(fs) /\ Tail(fs)[i - 1] = fs[i]
<1>1. /\ Tail(fs) \in Seq(Frame) /\ Head(fs) = fs[1] /\ Len(fs) \in Nat \ {0}
      /\ Len(Tail(fs)) = Len(fs) - 1 /\ \A i \in 1 .. Len(Tail(fs)) : Tail(fs)[i] = fs[i + 1]
  BY HeadTailProperties, LenProperties
<1>2. DOMAIN fs = 1 .. Len(fs) /\ DOMAIN Tail(fs) = 1 .. Len(fs) - 1
  BY <1>1, LenProperties
<1>. QED
  BY <1>1, <1>2

LEMMA HonouredRead ==
  ASSUME NEW fs \in Seq(Frame), fs # << >>, NEW ps, NEW qs, NEW q, Honoured(q, fs, ps),
         q \in ps /\ ~Tells(fs, 1, "revoke", q) => q \in qs,
         Tells(fs, 1, "create", q) => q \in qs
  PROVE  Honoured(q, Tail(fs), qs)
<1>. DEFINE ts == Tail(fs)
<1>1. /\ \A i \in DOMAIN ts : i + 1 \in DOMAIN fs /\ ts[i] = fs[i + 1]
      /\ \A i \in DOMAIN fs : i # 1 => i - 1 \in DOMAIN ts /\ ts[i - 1] = fs[i]
      /\ 1 \in DOMAIN fs
  BY ToldRead
<1>. HIDE DEF ts
<1>2. /\ \A i \in DOMAIN ts : Tells(ts, i, "revoke", q) => Tells(fs, i + 1, "revoke", q)
      /\ \A i \in DOMAIN fs : i # 1 /\ Tells(fs, i, "create", q) => Tells(ts, i - 1, "create", q)
  BY <1>1 DEF Tells
<1>3. \A i \in DOMAIN ts : ~Tells(ts, i, "revoke", q)
  BY <1>1, <1>2 DEF Honoured
<1>4. q \in qs \/ \E i \in DOMAIN ts : Tells(ts, i, "create", q)
  BY <1>1, <1>2 DEF Honoured
<1>5. Honoured(q, ts, qs)
  BY <1>3, <1>4 DEF Honoured
<1>. QED
  BY <1>5 DEF ts

LEMMA WithdrawnRead ==
  ASSUME NEW fs \in Seq(Frame), fs # << >>, NEW ps, NEW qs, NEW q, Withdrawn(q, fs, ps),
         q \in qs => (q \in ps \/ Tells(fs, 1, "create", q)) /\ ~Tells(fs, 1, "revoke", q)
  PROVE  Withdrawn(q, Tail(fs), qs)
<1>. DEFINE ts == Tail(fs)
<1>1. /\ \A i \in DOMAIN ts : i + 1 \in DOMAIN fs /\ ts[i] = fs[i + 1]
      /\ \A i \in DOMAIN fs : i # 1 => i - 1 \in DOMAIN ts /\ ts[i - 1] = fs[i]
      /\ 1 \in DOMAIN fs /\ DOMAIN fs \subseteq Nat /\ DOMAIN ts \subseteq Nat /\ \A i \in DOMAIN ts : i >= 1
  BY ToldRead
<1>. HIDE DEF ts
<1>2. /\ \A i \in DOMAIN ts : Tells(ts, i, "create", q) => Tells(fs, i + 1, "create", q)
      /\ \A i \in DOMAIN fs : i # 1 /\ Tells(fs, i, "revoke", q) => Tells(ts, i - 1, "revoke", q)
  BY <1>1 DEF Tells
<1>3. ASSUME q \in qs \/ \E i \in DOMAIN ts : Tells(ts, i, "create", q)
      PROVE  \E j \in DOMAIN ts : Tells(ts, j, "revoke", q) /\ \A i \in DOMAIN ts : Tells(ts, i, "create", q) => i < j
  <2>1. q \in ps \/ \E i \in DOMAIN fs : Tells(fs, i, "create", q)
    BY <1>1, <1>2, <1>3
  <2>2. PICK j \in DOMAIN fs : Tells(fs, j, "revoke", q) /\ \A i \in DOMAIN fs : Tells(fs, i, "create", q) => i < j
    BY <2>1 DEF Withdrawn
  <2>3. j # 1
    <3>1. CASE q \in qs
      BY <2>2, <3>1
    <3>2. CASE \E i \in DOMAIN ts : Tells(ts, i, "create", q)
      <4>1. PICK i \in DOMAIN ts : Tells(ts, i, "create", q)
        BY <3>2
      <4>2. i + 1 < j /\ i >= 1 /\ i \in Nat
        BY <1>1, <1>2, <2>2, <4>1
      <4>. QED
        BY <4>2
    <3>. QED
      BY <1>3, <3>1, <3>2
  <2>4. j - 1 \in DOMAIN ts /\ Tells(ts, j - 1, "revoke", q)
    BY <1>1, <1>2, <2>2, <2>3
  <2>5. ASSUME NEW i \in DOMAIN ts, Tells(ts, i, "create", q)
        PROVE  i < j - 1
    <3>1. i + 1 < j /\ i \in Nat /\ j \in Nat
      BY <1>1, <1>2, <2>2, <2>5
    <3>. QED
      BY <3>1
  <2>. QED
    BY <2>4, <2>5
<1>4. Withdrawn(q, ts, qs)
  BY <1>3 DEF Withdrawn
<1>. QED
  BY <1>4 DEF ts

LEMMA KeptRead ==
  ASSUME NEW fs \in Seq(Frame), fs # << >>, NEW ps, NEW qs, NEW br, NEW cr, NEW d,
         NEW i \in DOMAIN Tail(fs), Kept(fs, ps, br, i + 1, d), br \subseteq cr,
         d \in ps /\ ~Tells(fs, 1, "revoke", d) => d \in qs \union cr,
         Tells(fs, 1, "create", d) => d \in qs \union cr
  PROVE  Kept(Tail(fs), qs, cr, i, d)
<1>. DEFINE ts == Tail(fs)
<1>1. /\ \A j \in DOMAIN ts : j + 1 \in DOMAIN fs /\ ts[j] = fs[j + 1]
      /\ \A j \in DOMAIN fs : j # 1 => j - 1 \in DOMAIN ts /\ ts[j - 1] = fs[j]
      /\ 1 \in DOMAIN fs /\ DOMAIN fs \subseteq Nat /\ DOMAIN ts \subseteq Nat /\ \A j \in DOMAIN ts : j >= 1
      /\ i \in DOMAIN ts
  BY ToldRead
<1>. HIDE DEF ts
<1>2. /\ \A j \in DOMAIN ts : Tells(ts, j, "revoke", d) => Tells(fs, j + 1, "revoke", d)
      /\ \A j \in DOMAIN fs : j # 1 /\ Tells(fs, j, "create", d) => Tells(ts, j - 1, "create", d)
  BY <1>1 DEF Tells
<1>3. CASE d \in cr
  BY <1>3 DEF Kept, ts
<1>4. CASE d \notin cr
  <2>1. /\ d \in ps \/ \E j \in DOMAIN fs : j < i + 1 /\ Tells(fs, j, "create", d)
        /\ \A j \in DOMAIN fs : Tells(fs, j, "revoke", d) => i + 1 < j
    BY <1>4 DEF Kept
  <2>2. ~Tells(fs, 1, "revoke", d)
    <3>1. ~(i + 1 < 1)
      BY <1>1
    <3>. QED
      BY <1>1, <2>1, <3>1
  <2>3. ASSUME NEW j \in DOMAIN fs, j < i + 1, Tells(fs, j, "create", d), j # 1
        PROVE  j - 1 \in DOMAIN ts /\ j - 1 < i /\ Tells(ts, j - 1, "create", d)
    <3>1. i \in Nat /\ j \in Nat
      BY <1>1
    <3>. QED
      BY <1>1, <1>2, <2>3, <3>1
  <2>4. d \in qs \/ \E j \in DOMAIN ts : j < i /\ Tells(ts, j, "create", d)
    BY <1>4, <2>1, <2>2, <2>3
  <2>5. ASSUME NEW j \in DOMAIN ts, Tells(ts, j, "revoke", d)
        PROVE  i < j
    <3>1. i + 1 < j + 1 /\ i \in Nat /\ j \in Nat
      BY <1>1, <1>2, <2>1, <2>5
    <3>. QED
      BY <3>1
  <2>. QED
    BY <2>4, <2>5 DEF Kept, ts
<1>. QED
  BY <1>3, <1>4

\* The relay reads one frame.
LEMMA ReadFrameKeeps ==
  ASSUME DoorInv, ReadFrame
  PROVE  DoorInv'
<1>1. /\ UNCHANGED <<standing, scope, policy, granted, made, queue, online, box, keeps>>
      /\ frames # << >> /\ frames' = Tail(frames) /\ frames \in Seq(Frame)
      /\ made \in Nat /\ passes \subseteq 1 .. made /\ broken \subseteq 1 .. made
  BY DEF ReadFrame, client, DoorInv, DoorTypes
<1>. DEFINE f == Head(frames)
<1>2. /\ frames' \in Seq(Frame) /\ f = frames[1] /\ 1 \in DOMAIN frames
      /\ \A i \in DOMAIN frames' : i + 1 \in DOMAIN frames /\ frames'[i] = frames[i + 1]
  BY <1>1, ToldRead
<1>3. f.op # "set" => f.pass \in 1 .. made
  BY <1>2 DEF DoorInv, DoorTypes
<1>4. \A op, q : Tells(frames, 1, op, q) <=> f.op = op /\ f.pass = q
  BY <1>2 DEF Tells
<1>5. f \in Frame
  BY <1>1, <1>2, ElementOfSeq, LenProperties
<1>6. \/ f.op = "create" /\ Full /\ broken' = broken \union {f.pass} /\ passes' = passes /\ dm' = dm
      \/ f.op = "create" /\ ~Full /\ passes' = passes \union {f.pass} /\ broken' = broken /\ dm' = dm
      \/ f.op = "revoke" /\ passes' = passes \ {f.pass} /\ broken' = broken /\ dm' = dm
      \/ f.op = "set" /\ dm' = f.policy /\ passes' = passes /\ broken' = broken
  BY DEF ReadFrame
<1>. HIDE DEF f
<1>7. /\ passes' \subseteq 1 .. made /\ broken' \subseteq 1 .. made /\ broken \subseteq broken'
  BY <1>1, <1>3, <1>6
<1>8. Cardinality(passes') <= MaxPasses
  <2>1. IsFiniteSet(passes) /\ Cardinality(passes) \in Nat /\ Cardinality(passes) <= MaxPasses /\ MaxPasses \in Nat
    <3>1. IsFiniteSet(1 .. made)
      BY <1>1, FS_Interval
    <3>2. IsFiniteSet(passes)
      BY <1>1, <3>1, FS_Subset
    <3>. QED
      BY <3>2, FS_CardinalityType, DoorAssumption DEF DoorInv, DoorTypes
  <2>2. CASE ~Full /\ passes' = passes \union {f.pass}
    <3>1. Cardinality(passes') <= Cardinality(passes) + 1 /\ Cardinality(passes') \in Nat
      <4>1. \/ Cardinality(passes \union {f.pass}) = Cardinality(passes)
            \/ Cardinality(passes \union {f.pass}) = Cardinality(passes) + 1
        BY <2>1, FS_AddElement
      <4>. QED
        BY <2>1, <2>2, <4>1
    <3>2. Cardinality(passes) < MaxPasses
      BY <2>1, <2>2 DEF Full
    <3>. QED
      BY <2>1, <3>1, <3>2
  <2>3. CASE passes' \subseteq passes
    <3>1. Cardinality(passes') <= Cardinality(passes) /\ Cardinality(passes') \in Nat
      BY <2>1, <2>3, FS_Subset, FS_CardinalityType
    <3>. QED
      BY <2>1, <3>1
  <2>. QED
    BY <1>6, <2>2, <2>3
<1>9. dm' \in Policy
  <2>1. f.op = "set" => f \in SetFrame
    BY <1>5 DEF Frame, PassFrame
  <2>. QED
    BY <1>6, <2>1 DEF SetFrame, DoorInv, DoorTypes
<1>10. DoorTypes'
  <2>1. \A i \in DOMAIN frames' : frames'[i].op # "set" => frames'[i].pass \in 1 .. made'
    BY <1>1, <1>2 DEF DoorInv, DoorTypes
  <2>. QED
    BY <1>1, <1>2, <1>7, <1>8, <1>9, <2>1 DEF DoorInv, DoorTypes
<1>11. InTurn'
  BY <1>1 DEF DoorInv, InTurn
<1>12. \A q : Honoured(q, frames, passes) /\ q \notin broken' => Honoured(q, frames', passes')
  <2>1. ASSUME NEW q, Honoured(q, frames, passes), q \notin broken'
        PROVE  Honoured(q, frames', passes')
    <3>1. q \in passes /\ ~Tells(frames, 1, "revoke", q) => q \in passes'
      BY <1>4, <1>6
    <3>2. Tells(frames, 1, "create", q) => q \in passes'
      BY <1>4, <1>6, <2>1
    <3>. QED
      BY <1>1, <2>1, <3>1, <3>2, HonouredRead
  <2>. QED
    BY <2>1
<1>13. \A q : Withdrawn(q, frames, passes) => Withdrawn(q, frames', passes')
  <2>1. ASSUME NEW q, Withdrawn(q, frames, passes)
        PROVE  Withdrawn(q, frames', passes')
    <3>1. q \in passes' => (q \in passes \/ Tells(frames, 1, "create", q)) /\ ~Tells(frames, 1, "revoke", q)
      BY <1>4, <1>6
    <3>. QED
      BY <1>1, <2>1, <3>1, WithdrawnRead
  <2>. QED
    BY <2>1
<1>14. ASSUME NEW s \in Peer
       PROVE  InBook(s)'
  <2>1. \A q : Given(q, s)' = Given(q, s)
    BY <1>1 DEF Given
  <2>2. granted' = granted /\ made' = made
    BY <1>1
  <2>3. PICK y : y = granted[s]
    OBVIOUS
  <2>4. /\ y \notin {0} \union broken => Given(y, s) /\ Honoured(y, frames, passes)
        /\ y # 0 => \A q \in 1 .. made : Given(q, s) => q <= y
        /\ \A q \in 1 .. made : Given(q, s) /\ q \notin {y} \union broken => Withdrawn(q, frames, passes)
        /\ \A r \in Peer : s # r /\ y # 0 => y # granted[r]
    BY <2>3 DEF DoorInv, BookInv, InBook
  <2>. QED
    BY <1>7, <1>12, <1>13, <2>1, <2>2, <2>3, <2>4 DEF InBook
<1>15. ASSUME NEW i \in DOMAIN frames', frames'[i].op = "set", NEW d \in frames'[i].due
       PROVE  Kept(frames', passes', broken', i, d)
  <2>1. Kept(frames, passes, broken, i + 1, d)
    BY <1>2, <1>15 DEF DoorInv, SetsInv
  <2>2. d \in passes /\ ~Tells(frames, 1, "revoke", d) => d \in passes' \union broken'
    BY <1>4, <1>6
  <2>3. Tells(frames, 1, "create", d) => d \in passes' \union broken'
    BY <1>4, <1>6
  <2>. QED
    BY <1>1, <1>7, <1>15, <2>1, <2>2, <2>3, KeptRead
<1>. QED
  BY <1>10, <1>11, <1>14, <1>15 DEF DoorInv, BookInv, SetsInv

-----------------------------------------------------------------------------
(* The gifts travel.                                                         *)

\* A step of the gifts keeps the book, if no peer is given more, no pass that is
\* not broken goes from the peer whom the book says it has, and all stays in turn.
LEMMA GiftStep ==
  ASSUME DoorInv, UNCHANGED <<standing, scope, policy, granted, made, online, frames, dm, passes>>,
         DoorTypes', InTurn', broken \subseteq broken',
         \A p \in Peer : \A q \in 1 .. made : Given(q, p)' => Given(q, p),
         \A p \in Peer : granted[p] \notin {0} \union broken' /\ Given(granted[p], p) =>
            keeps'[p] = granted[p] \/ (\E i \in DOMAIN box'[p] : box'[p][i] = granted[p])
            \/ (\E i \in DOMAIN queue' : queue'[i].to = p /\ queue'[i].pass = granted[p])
  PROVE  DoorInv'
<1>1. \A q : (Honoured(q, frames, passes) => Honoured(q, frames', passes'))
             /\ (Withdrawn(q, frames, passes) => Withdrawn(q, frames', passes'))
  OBVIOUS
<1>2. ASSUME NEW s \in Peer
      PROVE  InBook(s)'
  <2>1. granted' = granted /\ made' = made
    OBVIOUS
  <2>2. PICK y : y = granted[s]
    OBVIOUS
  <2>3. /\ y \notin {0} \union broken => Given(y, s) /\ Honoured(y, frames, passes)
        /\ y # 0 => \A q \in 1 .. made : Given(q, s) => q <= y
        /\ \A q \in 1 .. made : Given(q, s) /\ q \notin {y} \union broken => Withdrawn(q, frames, passes)
        /\ \A r \in Peer : s # r /\ y # 0 => y # granted[r]
    BY <2>2 DEF DoorInv, BookInv, InBook
  <2>4. y \notin {0} \union broken' => Given(y, s)'
    BY <2>2, <2>3 DEF Given
  <2>. QED
    BY <1>1, <2>1, <2>2, <2>3, <2>4 DEF InBook
<1>3. SetsInv'
  BY DEF DoorInv, SetsInv, Kept
<1>. QED
  BY <1>2, <1>3 DEF DoorInv, BookInv

\* The queue without one gift.
LEMMA WithoutOne ==
  ASSUME DoorInv, NEW i \in DOMAIN queue, queue' = RemoveAt(queue, i)
  PROVE  /\ queue' \in Seq(Gift)
         /\ \A j \in DOMAIN queue' : \E k \in DOMAIN queue : k # i /\ queue'[j] = queue[k]
         /\ \A k \in DOMAIN queue : k # i => \E j \in DOMAIN queue' : queue'[j] = queue[k]
         /\ \A j, k \in DOMAIN queue' : j < k => queue'[j].pass < queue'[k].pass
<1>1. queue \in Seq(Gift) /\ Len(queue) \in Nat /\ DOMAIN queue = 1 .. Len(queue)
  BY LenProperties DEF DoorInv, DoorTypes
<1>2. /\ queue' \in Seq(Gift) /\ DOMAIN queue' = 1 .. Len(queue) - 1
      /\ \A j \in 1 .. Len(queue) - 1 : queue'[j] = IF j < i THEN queue[j] ELSE queue[j + 1]
  BY <1>1, RemoveAtElements
<1>3. \A j, k \in DOMAIN queue : j < k => queue[j].pass < queue[k].pass
  BY DEF DoorInv, InTurn
<1>4. ASSUME NEW j \in DOMAIN queue'
      PROVE  \E k \in DOMAIN queue : k # i /\ queue'[j] = queue[k]
  <2>1. CASE j < i
    BY <1>1, <1>2, <2>1
  <2>2. CASE ~(j < i)
    <3>1. j + 1 \in DOMAIN queue /\ j + 1 # i
      BY <1>1, <1>2, <2>2
    <3>. QED
      BY <1>2, <2>2, <3>1
  <2>. QED
    BY <2>1, <2>2
<1>5. ASSUME NEW k \in DOMAIN queue, k # i
      PROVE  \E j \in DOMAIN queue' : queue'[j] = queue[k]
  <2>1. CASE k < i
    <3>1. k \in DOMAIN queue'
      BY <1>1, <1>2, <2>1
    <3>. QED
      BY <1>2, <2>1, <3>1
  <2>2. CASE ~(k < i)
    <3>1. k - 1 \in DOMAIN queue' /\ ~(k - 1 < i) /\ (k - 1) + 1 = k
      BY <1>1, <1>2, <1>5, <2>2
    <3>. QED
      BY <1>2, <3>1
  <2>. QED
    BY <2>1, <2>2
<1>6. ASSUME NEW j \in DOMAIN queue', NEW k \in DOMAIN queue', j < k
      PROVE  queue'[j].pass < queue'[k].pass
  <2>. DEFINE At(x) == IF x < i THEN x ELSE x + 1
  <2>1. At(j) \in DOMAIN queue /\ At(k) \in DOMAIN queue /\ At(j) < At(k)
    BY <1>1, <1>2, <1>6
  <2>2. queue'[j] = queue[At(j)] /\ queue'[k] = queue[At(k)]
    BY <1>2
  <2>. QED
    BY <1>3, <2>1, <2>2
<1>. QED
  BY <1>2, <1>4, <1>5, <1>6

\* The relay takes in the first gift of a peer.
LEMMA GiftSentKeeps ==
  ASSUME DoorInv, NEW i \in DOMAIN queue, GiftSent(i)
  PROVE  DoorInv'
<1>1. /\ UNCHANGED <<standing, scope, policy, granted, made, online, frames, dm, passes, keeps, broken>>
      /\ queue' = RemoveAt(queue, i)
      /\ box' = [box EXCEPT ![queue[i].to] = Append(@, queue[i].pass)]
      /\ \A j \in 1 .. i - 1 : queue[j].to # queue[i].to
  BY DEF GiftSent, First
<1>2. /\ queue \in Seq(Gift) /\ DOMAIN queue = 1 .. Len(queue) /\ Len(queue) \in Nat
      /\ box \in [Peer -> Seq(Nat)] /\ keeps \in [Peer -> 0 .. made] /\ made \in Nat
      /\ \A j \in DOMAIN queue : queue[j].pass \in 1 .. made
      /\ \A p \in Peer : \A j \in DOMAIN box[p] : box[p][j] \in 1 .. made
  BY LenProperties DEF DoorInv, DoorTypes
<1>3. /\ queue' \in Seq(Gift)
      /\ \A j \in DOMAIN queue' : \E k \in DOMAIN queue : k # i /\ queue'[j] = queue[k]
      /\ \A k \in DOMAIN queue : k # i => \E j \in DOMAIN queue' : queue'[j] = queue[k]
      /\ \A j, k \in DOMAIN queue' : j < k => queue'[j].pass < queue'[k].pass
  BY <1>1, WithoutOne
<1>4. PICK r \in Peer, x \in 1 .. made : r = queue[i].to /\ x = queue[i].pass
  <2>1. queue[i] \in Gift
    BY <1>2, ElementOfSeq
  <2>. QED
    BY <1>2, <2>1 DEF Gift
<1>5. box' = [box EXCEPT ![r] = Append(box[r], x)]
  BY <1>1, <1>4
<1>6. /\ box' \in [Peer -> Seq(Nat)] /\ \A p \in Peer : p # r => box'[p] = box[p]
      /\ box'[r] = Append(box[r], x)
  <2>1. box[r] \in Seq(Nat) /\ x \in Nat
    BY <1>2
  <2>2. Append(box[r], x) \in Seq(Nat)
    BY <2>1, AppendProperties
  <2>. QED
    BY <1>2, <1>5, <2>2
<1>7. /\ Len(box[r]) \in Nat /\ DOMAIN box[r] = 1 .. Len(box[r])
      /\ DOMAIN box'[r] = 1 .. Len(box[r]) + 1
      /\ \A j \in 1 .. Len(box[r]) : box'[r][j] = box[r][j]
      /\ box'[r][Len(box[r]) + 1] = x
  <2>1. box[r] \in Seq(Nat) /\ x \in Nat
    BY <1>2
  <2>. QED
    BY <1>6, <2>1, AppendProperties, LenProperties
<1>8. \A j \in DOMAIN box'[r] : (j \in DOMAIN box[r] /\ box'[r][j] = box[r][j]) \/ (j = Len(box[r]) + 1 /\ box'[r][j] = x)
  BY <1>7
<1>9. \A j \in DOMAIN box[r] : j \in DOMAIN box'[r] /\ box'[r][j] = box[r][j]
  BY <1>7
<1>10. Len(box[r]) + 1 \in DOMAIN box'[r]
  BY <1>7
<1>11. DoorTypes'
  <2>1. \A j \in DOMAIN queue' : queue'[j].pass \in 1 .. made'
    BY <1>1, <1>2, <1>3
  <2>2. \A p \in Peer : \A j \in DOMAIN box'[p] : box'[p][j] \in 1 .. made'
    BY <1>1, <1>2, <1>6, <1>8
  <2>. QED
    BY <1>1, <1>3, <1>6, <2>1, <2>2 DEF DoorInv, DoorTypes
<1>12. /\ \A p \in Peer :
           /\ \A j, k \in DOMAIN box[p] : j < k => box[p][j] < box[p][k]
           /\ \A j \in DOMAIN box[p] : keeps[p] < box[p][j]
           /\ \A j \in DOMAIN queue : queue[j].to = p =>
                 keeps[p] < queue[j].pass /\ \A k \in DOMAIN box[p] : box[p][k] < queue[j].pass
       /\ \A j, k \in DOMAIN queue : j < k => queue[j].pass < queue[k].pass
  BY DEF DoorInv, InTurn
<1>13. \A j \in DOMAIN box[r] : box[r][j] < x
  BY <1>4, <1>12
<1>14. keeps[r] < x
  BY <1>4, <1>12
<1>15. ASSUME NEW k \in DOMAIN queue, k # i, queue[k].to = r
       PROVE  x < queue[k].pass
  <2>1. ~(k < i)
    <3>1. k < i => k \in 1 .. i - 1
      BY <1>2
    <3>. QED
      BY <1>1, <1>4, <1>15, <3>1
  <2>2. i < k
    BY <1>2, <1>15, <2>1
  <2>. QED
    BY <1>4, <1>12, <2>2
<1>16. InTurn'
  <2>1. ASSUME NEW j \in DOMAIN box'[r], NEW k \in DOMAIN box'[r], j < k
        PROVE  box'[r][j] < box'[r][k]
    <3>1. j \in DOMAIN box[r]
      BY <1>7, <2>1
    <3>. QED
      BY <1>8, <1>9, <1>12, <1>13, <2>1, <3>1
  <2>2. \A j \in DOMAIN box'[r] : keeps[r] < box'[r][j]
    BY <1>8, <1>12, <1>14
  <2>3. ASSUME NEW j \in DOMAIN queue', queue'[j].to = r
        PROVE  keeps[r] < queue'[j].pass /\ \A k \in DOMAIN box'[r] : box'[r][k] < queue'[j].pass
    <3>1. PICK k \in DOMAIN queue : k # i /\ queue'[j] = queue[k]
      BY <1>3
    <3>. QED
      BY <1>8, <1>12, <1>15, <2>3, <3>1
  <2>4. ASSUME NEW p \in Peer, p # r
        PROVE  /\ \A j, k \in DOMAIN box'[p] : j < k => box'[p][j] < box'[p][k]
               /\ \A j \in DOMAIN box'[p] : keeps[p] < box'[p][j]
               /\ \A j \in DOMAIN queue' : queue'[j].to = p =>
                     keeps[p] < queue'[j].pass /\ \A k \in DOMAIN box'[p] : box'[p][k] < queue'[j].pass
    <3>1. box'[p] = box[p]
      BY <1>6, <2>4
    <3>. QED
      BY <1>3, <1>12, <3>1
  <2>5. ASSUME NEW p \in Peer
        PROVE  /\ \A j, k \in DOMAIN box'[p] : j < k => box'[p][j] < box'[p][k]
               /\ \A j \in DOMAIN box'[p] : keeps[p] < box'[p][j]
               /\ \A j \in DOMAIN queue' : queue'[j].to = p =>
                     keeps[p] < queue'[j].pass /\ \A k \in DOMAIN box'[p] : box'[p][k] < queue'[j].pass
    BY <2>1, <2>2, <2>3, <2>4
  <2>. QED
    BY <1>1, <1>3, <2>5 DEF InTurn
<1>17. ASSUME NEW p \in Peer, NEW q \in 1 .. made
       PROVE  Given(q, p)' <=> Given(q, p)
  <2>1. ASSUME Given(q, p)
        PROVE  Given(q, p)'
    <3>1. CASE keeps[p] = q
      BY <1>1, <3>1 DEF Given
    <3>2. CASE \E j \in DOMAIN box[p] : box[p][j] = q
      BY <1>6, <1>9, <3>2 DEF Given
    <3>3. CASE \E j \in DOMAIN queue : queue[j].to = p /\ queue[j].pass = q
      <4>1. PICK j \in DOMAIN queue : queue[j].to = p /\ queue[j].pass = q
        BY <3>3
      <4>2. CASE j = i
        BY <1>4, <1>7, <1>10, <4>1, <4>2 DEF Given
      <4>3. CASE j # i
        BY <1>3, <4>1, <4>3 DEF Given
      <4>. QED
        BY <4>2, <4>3
    <3>. QED
      BY <2>1, <3>1, <3>2, <3>3 DEF Given
  <2>2. ASSUME Given(q, p)'
        PROVE  Given(q, p)
    <3>1. CASE keeps'[p] = q
      BY <1>1, <3>1 DEF Given
    <3>2. CASE \E j \in DOMAIN box'[p] : box'[p][j] = q
      BY <1>4, <1>6, <1>8, <3>2 DEF Given
    <3>3. CASE \E j \in DOMAIN queue' : queue'[j].to = p /\ queue'[j].pass = q
      BY <1>3, <3>3 DEF Given
    <3>. QED
      BY <2>2, <3>1, <3>2, <3>3 DEF Given
  <2>. QED
    BY <2>1, <2>2
<1>18. ASSUME NEW p \in Peer, granted[p] \notin {0} \union broken', Given(granted[p], p)
       PROVE  keeps'[p] = granted[p] \/ (\E j \in DOMAIN box'[p] : box'[p][j] = granted[p])
              \/ (\E j \in DOMAIN queue' : queue'[j].to = p /\ queue'[j].pass = granted[p])
  <2>1. PICK y \in 1 .. made : y = granted[p]
    BY <1>18 DEF DoorInv, DoorTypes
  <2>2. Given(y, p)'
    BY <1>17, <1>18, <2>1
  <2>. QED
    BY <2>1, <2>2 DEF Given
<1>. QED
  BY <1>1, <1>11, <1>16, <1>17, <1>18, GiftStep

\* The box without its first gift.
LEMMA BoxWithoutFirst ==
  ASSUME DoorInv, NEW r \in Peer, box[r] # << >>, box' = [box EXCEPT ![r] = Tail(@)]
  PROVE  /\ box' \in [Peer -> Seq(Nat)] /\ \A p \in Peer : p # r => box'[p] = box[p]
         /\ 1 \in DOMAIN box[r] /\ Head(box[r]) = box[r][1]
         /\ \A j \in DOMAIN box'[r] : j + 1 \in DOMAIN box[r] /\ 1 < j + 1 /\ box'[r][j] = box[r][j + 1] /\ j \in Nat
         /\ \A j \in DOMAIN box[r] : j # 1 => j - 1 \in DOMAIN box'[r] /\ box'[r][j - 1] = box[r][j]
<1>1. box \in [Peer -> Seq(Nat)] /\ box[r] \in Seq(Nat)
  BY DEF DoorInv, DoorTypes
<1>2. /\ Tail(box[r]) \in Seq(Nat) /\ Head(box[r]) = box[r][1] /\ Len(box[r]) \in Nat \ {0}
      /\ Len(Tail(box[r])) = Len(box[r]) - 1 /\ \A i \in 1 .. Len(Tail(box[r])) : Tail(box[r])[i] = box[r][i + 1]
      /\ DOMAIN box[r] = 1 .. Len(box[r])
  BY <1>1, HeadTailProperties, LenProperties
<1>3. DOMAIN Tail(box[r]) = 1 .. Len(box[r]) - 1
  BY <1>2, LenProperties
<1>4. box' \in [Peer -> Seq(Nat)] /\ box'[r] = Tail(box[r]) /\ \A p \in Peer : p # r => box'[p] = box[p]
  BY <1>1, <1>2
<1>5. \A j \in DOMAIN box'[r] : j + 1 \in DOMAIN box[r] /\ 1 < j + 1 /\ box'[r][j] = box[r][j + 1] /\ j \in Nat
  BY <1>2, <1>3, <1>4
<1>6. ASSUME NEW j \in DOMAIN box[r], j # 1
      PROVE  j - 1 \in DOMAIN box'[r] /\ box'[r][j - 1] = box[r][j]
  <2>1. j - 1 \in 1 .. Len(box[r]) - 1 /\ (j - 1) + 1 = j
    BY <1>2, <1>6
  <2>. QED
    BY <1>2, <1>3, <1>4, <2>1
<1>. QED
  BY <1>2, <1>4, <1>5, <1>6

LEMMA BoxOrder ==
  ASSUME DoorInv, NEW r \in Peer, box[r] # << >>, box' = [box EXCEPT ![r] = Tail(@)]
  PROVE  \A p \in Peer :
           /\ \A j, k \in DOMAIN box'[p] : j < k => box'[p][j] < box'[p][k]
           /\ \A j \in DOMAIN box'[p] : keeps[p] < box'[p][j] /\ \E k \in DOMAIN box[p] : box'[p][j] = box[p][k]
           /\ p = r => \A j \in DOMAIN box'[p] : box[p][1] < box'[p][j]
<1>1. /\ \A p \in Peer : p # r => box'[p] = box[p]
      /\ 1 \in DOMAIN box[r]
      /\ \A j \in DOMAIN box'[r] : j + 1 \in DOMAIN box[r] /\ 1 < j + 1 /\ box'[r][j] = box[r][j + 1] /\ j \in Nat
  BY BoxWithoutFirst
<1>2. \A p \in Peer : /\ \A j, k \in DOMAIN box[p] : j < k => box[p][j] < box[p][k]
                      /\ \A j \in DOMAIN box[p] : keeps[p] < box[p][j]
  BY DEF DoorInv, InTurn
<1>3. ASSUME NEW j \in DOMAIN box'[r], NEW k \in DOMAIN box'[r], j < k
      PROVE  box'[r][j] < box'[r][k]
  <2>1. j + 1 < k + 1
    BY <1>1, <1>3
  <2>. QED
    BY <1>1, <1>2, <2>1
<1>4. \A j \in DOMAIN box'[r] : keeps[r] < box'[r][j] /\ box[r][1] < box'[r][j]
  BY <1>1, <1>2
<1>5. ASSUME NEW p \in Peer
      PROVE  /\ \A j, k \in DOMAIN box'[p] : j < k => box'[p][j] < box'[p][k]
             /\ \A j \in DOMAIN box'[p] : keeps[p] < box'[p][j] /\ \E k \in DOMAIN box[p] : box'[p][j] = box[p][k]
             /\ p = r => \A j \in DOMAIN box'[p] : box[p][1] < box'[p][j]
  <2>1. CASE p = r
    BY <1>1, <1>3, <1>4, <2>1
  <2>2. CASE p # r
    <3>1. box'[p] = box[p]
      BY <1>1, <2>2
    <3>. QED
      BY <1>2, <2>2, <3>1
  <2>. QED
    BY <2>1, <2>2
<1>. QED
  BY <1>5

\* A gift expires: its pass is broken.
LEMMA GiftExpiresKeeps ==
  ASSUME DoorInv, NEW r \in Peer, GiftExpires(r)
  PROVE  DoorInv'
<1>1. UNCHANGED <<standing, scope, policy, granted, made, online, frames, dm, passes, keeps>>
  BY DEF GiftExpires
<1>2. /\ queue \in Seq(Gift) /\ box \in [Peer -> Seq(Nat)] /\ broken \subseteq 1 .. made
      /\ \A j \in DOMAIN queue : queue[j].pass \in 1 .. made
      /\ \A p \in Peer : \A j \in DOMAIN box[p] : box[p][j] \in 1 .. made
  BY DEF DoorInv, DoorTypes
<1>3. /\ \A p \in Peer :
          /\ \A j, k \in DOMAIN box[p] : j < k => box[p][j] < box[p][k]
          /\ \A j \in DOMAIN box[p] : keeps[p] < box[p][j]
          /\ \A j \in DOMAIN queue : queue[j].to = p =>
                keeps[p] < queue[j].pass /\ \A k \in DOMAIN box[p] : box[p][k] < queue[j].pass
      /\ \A j, k \in DOMAIN queue : j < k => queue[j].pass < queue[k].pass
  BY DEF DoorInv, InTurn
<1>4. ASSUME NEW i \in DOMAIN queue, queue[i].to = r, queue' = RemoveAt(queue, i),
             broken' = broken \union {queue[i].pass}, UNCHANGED box
      PROVE  DoorInv'
  <2>1. /\ queue' \in Seq(Gift)
        /\ \A j \in DOMAIN queue' : \E k \in DOMAIN queue : k # i /\ queue'[j] = queue[k]
        /\ \A k \in DOMAIN queue : k # i => \E j \in DOMAIN queue' : queue'[j] = queue[k]
        /\ \A j, k \in DOMAIN queue' : j < k => queue'[j].pass < queue'[k].pass
    BY <1>4, WithoutOne
  <2>2. DoorTypes'
    <3>1. (\A j \in DOMAIN queue' : queue'[j].pass \in 1 .. made') /\ broken' \subseteq 1 .. made'
      BY <1>1, <1>2, <1>4, <2>1
    <3>. QED
      BY <1>1, <1>4, <2>1, <3>1 DEF DoorInv, DoorTypes
  <2>3. InTurn'
    BY <1>1, <1>3, <1>4, <2>1 DEF InTurn
  <2>4. \A p \in Peer : \A q \in 1 .. made : Given(q, p)' => Given(q, p)
    BY <1>1, <1>4, <2>1 DEF Given
  <2>5. ASSUME NEW p \in Peer, granted[p] \notin {0} \union broken', Given(granted[p], p)
        PROVE  keeps'[p] = granted[p] \/ (\E j \in DOMAIN box'[p] : box'[p][j] = granted[p])
               \/ (\E j \in DOMAIN queue' : queue'[j].to = p /\ queue'[j].pass = granted[p])
    BY <1>1, <1>4, <2>1, <2>5, SMTT(60) DEF Given
  <2>. QED
    BY <1>1, <1>4, <2>2, <2>3, <2>4, <2>5, GiftStep
<1>5. ASSUME box[r] # << >>, box' = [box EXCEPT ![r] = Tail(@)],
             broken' = broken \union {Head(box[r])}, UNCHANGED queue
      PROVE  DoorInv'
  <2>1. /\ box' \in [Peer -> Seq(Nat)] /\ \A p \in Peer : p # r => box'[p] = box[p]
        /\ 1 \in DOMAIN box[r] /\ Head(box[r]) = box[r][1]
        /\ \A j \in DOMAIN box'[r] : j + 1 \in DOMAIN box[r] /\ 1 < j + 1 /\ box'[r][j] = box[r][j + 1] /\ j \in Nat
        /\ \A j \in DOMAIN box[r] : j # 1 => j - 1 \in DOMAIN box'[r] /\ box'[r][j - 1] = box[r][j]
    BY <1>5, BoxWithoutFirst
  <2>2. \A p \in Peer :
           /\ \A j, k \in DOMAIN box'[p] : j < k => box'[p][j] < box'[p][k]
           /\ \A j \in DOMAIN box'[p] : keeps[p] < box'[p][j] /\ \E k \in DOMAIN box[p] : box'[p][j] = box[p][k]
    BY <1>5, BoxOrder
  <2>3. DoorTypes'
    <3>0. \A p \in Peer : \A j \in DOMAIN box'[p] : box'[p][j] \in 1 .. made'
      BY <1>1, <1>2, <2>2
    <3>1. broken' \subseteq 1 .. made'
      <4>1. Head(box[r]) \in 1 .. made
        BY <1>2, <2>1
      <4>. QED
        BY <1>1, <1>2, <1>5, <4>1
    <3>. QED
      BY <1>1, <1>5, <2>1, <3>0, <3>1 DEF DoorInv, DoorTypes
  <2>4. InTurn'
    BY <1>1, <1>3, <1>5, <2>2 DEF InTurn
  <2>5. \A p \in Peer : \A q \in 1 .. made : Given(q, p)' => Given(q, p)
    BY <1>1, <1>5, <2>2 DEF Given
  <2>6. ASSUME NEW p \in Peer, granted[p] \notin {0} \union broken', Given(granted[p], p)
        PROVE  keeps'[p] = granted[p] \/ (\E j \in DOMAIN box'[p] : box'[p][j] = granted[p])
               \/ (\E j \in DOMAIN queue' : queue'[j].to = p /\ queue'[j].pass = granted[p])
    <3>1. CASE p # r
      BY <1>1, <1>5, <2>1, <2>6, <3>1 DEF Given
    <3>2. CASE p = r /\ \E j \in DOMAIN box[r] : box[r][j] = granted[r]
      <4>1. PICK j \in DOMAIN box[r] : box[r][j] = granted[r]
        BY <3>2
      <4>2. j # 1
        BY <1>5, <2>1, <2>6, <3>2, <4>1
      <4>. QED
        BY <2>1, <3>2, <4>1, <4>2
    <3>3. CASE p = r /\ ~ \E j \in DOMAIN box[r] : box[r][j] = granted[r]
      BY <1>1, <1>5, <2>6, <3>3 DEF Given
    <3>. QED
      BY <3>1, <3>2, <3>3
  <2>. QED
    BY <1>1, <1>5, <2>3, <2>4, <2>5, <2>6, GiftStep
<1>. QED
  BY <1>4, <1>5 DEF GiftExpires

\* A peer reads its first gift: the pass it kept is older than the one in the book.
LEMMA ReadGiftKeeps ==
  ASSUME DoorInv, NEW r \in Peer, ReadGift(r)
  PROVE  DoorInv'
<1>1. /\ UNCHANGED <<standing, scope, policy, granted, made, queue, online, frames, dm, passes, broken>>
      /\ box[r] # << >> /\ box' = [box EXCEPT ![r] = Tail(@)]
      /\ keeps' = [keeps EXCEPT ![r] = Head(box[r])]
  BY DEF ReadGift, client
<1>2. /\ keeps \in [Peer -> 0 .. made] /\ granted \in [Peer -> 0 .. made] /\ made \in Nat
      /\ \A p \in Peer : \A j \in DOMAIN box[p] : box[p][j] \in 1 .. made
  BY DEF DoorInv, DoorTypes
<1>3. /\ \A p \in Peer :
          /\ \A j, k \in DOMAIN box[p] : j < k => box[p][j] < box[p][k]
          /\ \A j \in DOMAIN box[p] : keeps[p] < box[p][j]
          /\ \A j \in DOMAIN queue : queue[j].to = p =>
                keeps[p] < queue[j].pass /\ \A k \in DOMAIN box[p] : box[p][k] < queue[j].pass
      /\ \A j, k \in DOMAIN queue : j < k => queue[j].pass < queue[k].pass
  BY DEF DoorInv, InTurn
<1>4. /\ box' \in [Peer -> Seq(Nat)] /\ \A p \in Peer : p # r => box'[p] = box[p]
      /\ 1 \in DOMAIN box[r] /\ Head(box[r]) = box[r][1]
      /\ \A j \in DOMAIN box'[r] : j + 1 \in DOMAIN box[r] /\ 1 < j + 1 /\ box'[r][j] = box[r][j + 1] /\ j \in Nat
      /\ \A j \in DOMAIN box[r] : j # 1 => j - 1 \in DOMAIN box'[r] /\ box'[r][j - 1] = box[r][j]
  BY <1>1, BoxWithoutFirst
<1>5. \A p \in Peer :
         /\ \A j, k \in DOMAIN box'[p] : j < k => box'[p][j] < box'[p][k]
         /\ \A j \in DOMAIN box'[p] : keeps[p] < box'[p][j] /\ \E k \in DOMAIN box[p] : box'[p][j] = box[p][k]
         /\ p = r => \A j \in DOMAIN box'[p] : box[p][1] < box'[p][j]
  BY <1>1, BoxOrder
<1>6. keeps'[r] = box[r][1] /\ keeps[r] < box[r][1] /\ \A p \in Peer : p # r => keeps'[p] = keeps[p]
  BY <1>1, <1>2, <1>3, <1>4
<1>7. DoorTypes'
  <2>1. \A p \in Peer : \A j \in DOMAIN box'[p] : box'[p][j] \in 1 .. made'
    BY <1>1, <1>2, <1>5
  <2>2. keeps' \in [Peer -> 0 .. made']
    BY <1>1, <1>2, <1>4
  <2>. QED
    BY <1>1, <1>4, <2>1, <2>2 DEF DoorInv, DoorTypes
<1>8. InTurn'
  BY <1>1, <1>3, <1>4, <1>5, <1>6 DEF InTurn
<1>9. \A p \in Peer : \A q \in 1 .. made : Given(q, p)' => Given(q, p)
  BY <1>1, <1>4, <1>5, <1>6 DEF Given
<1>10. ASSUME NEW p \in Peer, granted[p] \notin {0} \union broken', Given(granted[p], p)
       PROVE  keeps'[p] = granted[p] \/ (\E j \in DOMAIN box'[p] : box'[p][j] = granted[p])
              \/ (\E j \in DOMAIN queue' : queue'[j].to = p /\ queue'[j].pass = granted[p])
  <2>1. CASE p # r
    <3>1. keeps'[p] = keeps[p] /\ box'[p] = box[p] /\ queue' = queue
      BY <1>1, <1>4, <1>6, <2>1
    <3>. QED
      BY <1>10, <3>1 DEF Given
  <2>2. CASE p = r
    <3>1. keeps[r] # granted[r]
      <4>1. Given(box[r][1], r) /\ box[r][1] \in 1 .. made
        BY <1>2, <1>4 DEF Given
      <4>2. box[r][1] <= granted[r]
        BY <1>10, <2>2, <4>1 DEF DoorInv, BookInv, InBook
      <4>. QED
        BY <1>2, <1>6, <4>1, <4>2
    <3>2. CASE \E j \in DOMAIN box[r] : box[r][j] = granted[r]
      <4>1. PICK j \in DOMAIN box[r] : box[r][j] = granted[r]
        BY <3>2
      <4>2. CASE j = 1
        BY <1>6, <2>2, <4>1, <4>2
      <4>3. CASE j # 1
        BY <1>4, <2>2, <4>1, <4>3
      <4>. QED
        BY <4>2, <4>3
    <3>3. CASE \E j \in DOMAIN queue : queue[j].to = r /\ queue[j].pass = granted[r]
      BY <1>1, <2>2, <3>3
    <3>. QED
      BY <1>10, <2>2, <3>1, <3>2, <3>3 DEF Given
  <2>. QED
    BY <2>1, <2>2
<1>. QED
  BY <1>1, <1>7, <1>8, <1>9, <1>10, GiftStep

-----------------------------------------------------------------------------

\* The invariant: it holds at first, and every step keeps it.
LEMMA DoorStarts ==
  ASSUME Init
  PROVE  DoorInv
<1>1. DoorTypes
  <2>1. Cardinality({}) = 0
    BY FS_EmptySet
  <2>2. online \in BOOLEAN
    BY Zenon DEF Init
  <2>. QED
    BY <2>1, <2>2, DoorAssumption DEF Init, DoorTypes, Standing, Scope, Policy
<1>2. DOMAIN queue = {} /\ DOMAIN frames = {} /\ \A p \in Peer : DOMAIN box[p] = {}
  BY DEF Init
<1>3. InTurn /\ SetsInv
  BY <1>2 DEF InTurn, SetsInv
<1>4. BookInv
  BY <1>2 DEF Init, BookInv, InBook, Given, Honoured, Withdrawn
<1>. QED
  BY <1>1, <1>3, <1>4 DEF DoorInv

LEMMA DoorKeeps ==
  ASSUME DoorInv, [Next]_vars
  PROVE  DoorInv'
<1>0. /\ standing \in [Peer -> Standing] /\ scope \in Scope /\ policy \in Policy /\ online \in BOOLEAN
  BY DEF DoorInv, DoorTypes
<1>1. CASE Connect
  BY <1>1, ConnectKeeps
<1>2. CASE Reconcile
  BY <1>2, ReconcileKeeps
<1>3. CASE Maximize
  <2>1. /\ UNCHANGED <<granted, made, queue, frames, passes, box, keeps, broken, dm, standing, policy>>
        /\ scope' = "approved" /\ online' = FALSE
    BY <1>3 DEF Maximize, relay
  <2>2. online' \in BOOLEAN
    BY <2>1, Zenon
  <2>3. scope' \in Scope
    BY <2>1 DEF Scope
  <2>. QED
    BY <1>0, <2>1, <2>2, <2>3, QuietDoor
<1>4. CASE Disconnect
  <2>1. /\ UNCHANGED <<granted, made, queue, frames, passes, box, keeps, broken, dm, standing, policy, scope>>
        /\ online' = FALSE
    BY <1>4 DEF Disconnect, relay, client
  <2>2. online' \in BOOLEAN
    BY <2>1, Zenon
  <2>. QED
    BY <1>0, <2>1, <2>2, QuietDoor
<1>5. CASE Lose
  BY <1>5, LoseKeeps
<1>6. CASE ReadFrame
  BY <1>6, ReadFrameKeeps
<1>7. ASSUME NEW sc \in Scope \ {"unset"}, PrivacySet(sc)
      PROVE  DoorInv'
  BY <1>7, PrivacySetKeeps
<1>8. ASSUME NEW pol \in Policy, AccessSet(pol)
      PROVE  DoorInv'
  BY <1>8, AccessSetKeeps
<1>9. ASSUME NEW i \in DOMAIN queue, GiftSent(i)
      PROVE  DoorInv'
  BY <1>9, GiftSentKeeps
<1>10. ASSUME NEW p \in Peer, PassRevoke(p) \/ GiftExpires(p) \/ ReadGift(p)
       PROVE  DoorInv'
  BY <1>10, PassRevokeKeeps, GiftExpiresKeeps, ReadGiftKeeps
<1>11. ASSUME NEW p \in Peer, NEW to \in Standing, DirectorySet(p, to)
       PROVE  DoorInv'
  <2>1. /\ UNCHANGED <<granted, made, queue, frames, passes, box, keeps, broken, dm, policy, scope, online>>
        /\ standing' \in [Peer -> Standing]
    BY <1>0, <1>11 DEF DirectorySet, relay
  <2>. QED
    BY <1>0, <2>1, QuietDoor
<1>12. CASE UNCHANGED vars
  <2>1. UNCHANGED <<granted, made, queue, frames, passes, box, keeps, broken, dm, policy, scope, online, standing>>
    BY <1>12 DEF vars, client, relay
  <2>. QED
    BY <1>0, <2>1, QuietDoor
<1>. QED
  BY <1>1, <1>2, <1>3, <1>4, <1>5, <1>6, <1>7, <1>8, <1>9, <1>10, <1>11, <1>12 DEF Next

\* The pass in the book is the last gift of its peer.
LEMMA TheLatest ==
  ASSUME DoorInv, NEW p \in Peer, NEW y \in 1 .. made, y = granted[p], Given(y, p)
  PROVE  IsLatest(y, p)
<1>1. /\ made \in Nat /\ box[p] \in Seq(Nat) /\ keeps[p] \in 0 .. made
      /\ Len(box[p]) \in Nat /\ DOMAIN box[p] = 1 .. Len(box[p]) /\ DOMAIN queue \subseteq Int
      /\ \A j \in DOMAIN queue : queue[j].pass \in 1 .. made
      /\ \A j \in DOMAIN box[p] : box[p][j] \in 1 .. made
  BY LenProperties DEF DoorInv, DoorTypes
<1>2. /\ \A j, k \in DOMAIN box[p] : j < k => box[p][j] < box[p][k]
      /\ \A j \in DOMAIN box[p] : keeps[p] < box[p][j]
      /\ \A j \in DOMAIN queue : queue[j].to = p =>
            keeps[p] < queue[j].pass /\ \A k \in DOMAIN box[p] : box[p][k] < queue[j].pass
      /\ \A j, k \in DOMAIN queue : j < k => queue[j].pass < queue[k].pass
  BY DEF DoorInv, InTurn
<1>3. \A q \in 1 .. made : Given(q, p) => q <= y
  BY <1>1 DEF DoorInv, BookInv, InBook
<1>4. \A j \in DOMAIN queue : queue[j].to = p => queue[j].pass <= y
  BY <1>1, <1>3 DEF Given
<1>5. \A j \in DOMAIN box[p] : box[p][j] <= y
  BY <1>1, <1>3 DEF Given
<1>. DEFINE own == {i \in DOMAIN queue : queue[i].to = p}
<1>6. ASSUME own # {}
      PROVE  \E i \in own : queue[i].pass = y /\ \A j \in own : j <= i
  <2>1. PICK k \in own : TRUE
    BY <1>6
  <2>2. keeps[p] # y /\ \A j \in DOMAIN box[p] : box[p][j] # y
    BY <1>1, <1>2, <1>4, <2>1
  <2>3. PICK i \in own : queue[i].pass = y
    BY <2>2 DEF Given
  <2>4. ASSUME NEW j \in own, i < j
        PROVE  FALSE
    BY <1>1, <1>2, <1>4, <2>3, <2>4
  <2>. QED
    BY <1>1, <2>3, <2>4
<1>7. ASSUME own = {}
      PROVE  y = Last(<<keeps[p]>> \o box[p])
  <2>. DEFINE s == <<keeps[p]>> \o box[p]
              n == Len(box[p])
  <2>1. <<keeps[p]>> \in Seq(Nat) /\ Len(<<keeps[p]>>) = 1 /\ <<keeps[p]>>[1] = keeps[p]
    BY <1>1
  <2>2. Len(s) = 1 + n /\ \A i \in 1 .. 1 + n : s[i] = IF i <= 1 THEN keeps[p] ELSE box[p][i - 1]
    BY <1>1, <2>1, ConcatProperties
  <2>3. Last(s) = IF n = 0 THEN keeps[p] ELSE box[p][n]
    <3>1. 1 + n \in 1 .. 1 + n /\ (1 + n) - 1 = n /\ (1 + n <= 1 <=> n = 0)
      BY <1>1
    <3>. QED
      BY <2>2, <3>1 DEF Last
  <2>4. keeps[p] = y \/ \E j \in DOMAIN box[p] : box[p][j] = y
    BY <1>7 DEF Given
  <2>. HIDE DEF s
  <2>5. CASE n = 0
    BY <1>1, <2>3, <2>4, <2>5 DEF s
  <2>6. CASE n # 0
    <3>1. n \in DOMAIN box[p] /\ \A j \in DOMAIN box[p] : j # n => j < n
      BY <1>1, <2>6
    <3>2. box[p][n] <= y /\ keeps[p] < box[p][n]
      BY <1>2, <1>5, <3>1
    <3>3. \A j \in DOMAIN box[p] : box[p][j] = y => j = n
      BY <1>1, <1>2, <3>1, <3>2
    <3>. QED
      BY <1>1, <2>3, <2>4, <2>6, <3>1, <3>2, <3>3 DEF s
  <2>. QED
    BY <2>5, <2>6
<1>. QED
  BY <1>6, <1>7 DEF IsLatest

\* The invariant gives the property.
LEMMA TheBook ==
  ASSUME DoorInv
  PROVE  BookIsTrue
<1>1. TypeOK
  <2>1. ASSUME NEW i \in DOMAIN queue
        PROVE  queue[i] \in [to : Peer, pass : 1 .. made]
    <3>1. queue \in Seq(Gift) /\ i \in 1 .. Len(queue) /\ queue[i].pass \in 1 .. made
      BY LenProperties DEF DoorInv, DoorTypes
    <3>2. queue[i] \in Gift
      BY <3>1, ElementOfSeq
    <3>. QED
      BY <3>1, <3>2 DEF Gift
  <2>2. {policy, dm} \subseteq Policy
    BY DEF DoorInv, DoorTypes
  <2>. QED
    BY <2>1, <2>2 DEF DoorInv, DoorTypes, TypeOK
<1>2. ASSUME frames = << >>, NEW p \in Peer
      PROVE  /\ granted[p] \notin {0} \union broken => granted[p] \in passes /\ IsLatest(granted[p], p)
             /\ GiftsOf(p) \intersect passes \subseteq {granted[p]} \union broken
  <2>1. DOMAIN frames = {} /\ passes \subseteq 1 .. made /\ granted[p] \in 0 .. made /\ made \in Nat
    BY <1>2 DEF DoorInv, DoorTypes
  <2>2. InBook(p)
    BY DEF DoorInv, BookInv
  <2>3. ASSUME granted[p] \notin {0} \union broken
        PROVE  granted[p] \in passes /\ IsLatest(granted[p], p)
    <3>1. Given(granted[p], p) /\ granted[p] \in passes
      BY <2>1, <2>2, <2>3 DEF InBook, Honoured
    <3>2. granted[p] \in 1 .. made
      BY <2>1, <3>1
    <3>. QED
      BY <3>1, <3>2, TheLatest
  <2>4. ASSUME NEW q \in GiftsOf(p), q \in passes, q \notin {granted[p]} \union broken
        PROVE  FALSE
    <3>1. Given(q, p)
      BY DEF GiftsOf, ToSet, Given
    <3>2. Withdrawn(q, frames, passes)
      BY <2>1, <2>2, <2>4, <3>1 DEF InBook
    <3>. QED
      BY <2>1, <2>4, <3>2 DEF Withdrawn
  <2>. QED
    BY <2>3, <2>4
<1>. QED
  BY <1>1, <1>2 DEF BookIsTrue

\* Once the relay has read what was written, whoever stands in the book can enter
\* with the last pass he was given, and no other pass anybody was ever given is
\* honoured, unless a part of it broke: for any number of peers, of passes and of
\* places at the relay, however the frames and the gifts overtake each other.
THEOREM BookIsTrueHolds == Spec => []BookIsTrue
<1>1. Init => DoorInv
  BY DoorStarts
<1>2. DoorInv /\ [Next]_vars => DoorInv'
  BY DoorKeeps
<1>3. DoorInv => BookIsTrue
  BY TheBook
<1>. QED
  BY <1>1, <1>2, <1>3, PTL DEF Spec

\* The relay's policy changes when it reads one.
LEMMA OnlyReadCloses ==
  ASSUME DoorInv, [Next]_vars, dm = "everyone", dm' = "passes"
  PROVE  ReadFrame
<1>1. dm' # dm
  OBVIOUS
<1>. QED
  BY <1>1 DEF Next, Connect, Reconcile, Maximize, Disconnect, Lose, PrivacySet, AccessSet, GiftSent, PassRevoke,
     GiftExpires, ReadGift, DirectorySet, vars, relay

\* First the passes, then the door: when the relay closes it, it knows the pass of
\* everyone who deserved one when the owner decided so, unless the pass broke.
THEOREM ClosedAfterGrantedHolds == Spec => ClosedAfterGranted
<1>1. Init => DoorInv
  BY DoorStarts
<1>2. DoorInv /\ [Next]_vars => DoorInv'
  BY DoorKeeps
<1>3. ASSUME DoorInv, [Next]_vars, dm = "everyone", dm' = "passes"
      PROVE  Head(frames).due \subseteq passes \union broken
  <2>1. ReadFrame
    BY <1>3, OnlyReadCloses
  <2>2. frames # << >> /\ frames \in Seq(Frame) /\ Head(frames).op = "set"
    BY <1>3, <2>1 DEF ReadFrame, DoorInv, DoorTypes
  <2>3. Head(frames) = frames[1] /\ 1 \in DOMAIN frames /\ DOMAIN frames \subseteq Nat \ {0}
    BY <2>2, ToldRead
  <2>4. ASSUME NEW d \in Head(frames).due
        PROVE  d \in passes \union broken
    <3>1. Kept(frames, passes, broken, 1, d)
      BY <1>3, <2>2, <2>3 DEF DoorInv, SetsInv
    <3>. QED
      BY <2>3, <3>1 DEF Kept
  <2>. QED
    BY <2>4
<1>4. DoorInv /\ [Next]_vars => [dm = "everyone" /\ dm' = "passes" => Head(frames).due \subseteq passes \union broken]_vars
  BY <1>3
<1>. QED
  BY <1>1, <1>2, <1>4, PTL DEF Spec, ClosedAfterGranted
=============================================================================
