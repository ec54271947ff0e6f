---------------------------- MODULE OneShotProofs ----------------------------
(***************************************************************************)
(* OneShot for any processes, directories, files and changes: what is read *)
(* was there at one moment, what is followed was approved, and a sign-in   *)
(* is used.                                                                *)
(***************************************************************************)
EXTENDS OneShot, FiniteSetTheorems, TLAPS

Step(p) == Begin(p) \/ Resolve(p) \/ ForgetTrust(p) \/ Offer(p) \/ Request(p)
           \/ Consent(p) \/ Confirm(p)

Outside == \/ \E l \in Levels : ReplaceFile(l) \/ RemoveFile(l) \/ ReplaceMarker(l) \/ Rewrite(l)
           \/ Reconfigure

-----------------------------------------------------------------------------
(* Types.                                                                   *)
MaybeContents == Contents \cup {NoContent}
MaybeProfile  == Profiles \cup {NoProfile}

CommandType ==
    [kind : Kinds, flag : MaybeProfile, asks : BOOLEAN, yes : BOOLEAN, round : {1, 2},
     configured : SUBSET Profiles, default : MaybeProfile,
     trust : [Levels -> MaybeContents], level : Levels, marker : Nat, inode : Nat,
     stamp : Nat, first : MaybeContents, read : MaybeContents,
     once : [Levels -> MaybeContents], profile : MaybeProfile, whole : SUBSET Halves,
     known : SUBSET (Levels \X MaybeContents), signedIn : MaybeProfile]

\* The files there have been.
Existing == Cardinality(Levels) + changes

Types ==
    /\ marker \in [Levels -> Nat]
    /\ path \in [Levels -> 0..Existing]
    /\ data \in [Inodes -> Halves] /\ stamp \in [Inodes -> Nat]
    /\ changes \in 0..MaxChanges
    /\ configured \subseteq Profiles /\ default \in MaybeProfile
    /\ trust \in [Levels -> MaybeContents]
    /\ pc \in [Processes -> Places]
    /\ op \in [Processes -> CommandType]
    /\ \A p \in Processes : op[p].inode <= Existing
    /\ approved \subseteq Levels \X MaybeContents

\* A command that reads has a file; what it asks about has contents.
Opened ==
    \A p \in Processes :
        /\ pc[p] \in {"open", "readFirst", "readSecond", "restat"} => op[p].inode # 0
        /\ pc[p] \in {"restat", "relstat", "remarker", "parse", "prompt", "always", "record"}
              => op[p].read \in Contents

\* The bounds of the model are numbers, and a level and a marker exist.
LEMMA Numbers ==
    /\ Cardinality(Levels) \in Nat /\ MaxChanges \in Nat
    /\ 1 \in Levels
    /\ Types => Existing \in Nat /\ Existing <= Cardinality(Levels) + MaxChanges
                /\ \A i \in 1..Existing : i \in Inodes
  <1>1. Cardinality(Levels) \in Nat /\ MaxChanges \in Nat
    BY OneShotBounds, FS_CardinalityType
  <1>2. 1 \in Levels
    BY <1>1, OneShotBounds
  <1> QED BY <1>1, <1>2 DEF Types, Existing, Inodes

\* The record of a command that has not begun.
LEMMA NoCommandTypes == NoCommand \in CommandType
  BY Numbers DEF NoCommand, CommandType, Kinds, MaybeContents, MaybeProfile

\* Its fields.
LEMMA NoCommandFields ==
    /\ NoCommand.read = NoContent /\ NoCommand.inode = 0 /\ NoCommand.signedIn = NoProfile
    /\ NoCommand.trust = [l \in Levels |-> NoContent] /\ NoCommand.flag = NoProfile
  BY DEF NoCommand

\* Who takes a step changes its own command only.
LEMMA OthersStay ==
    ASSUME Types, NEW p \in Processes, Step(p)
    PROVE  /\ \A q \in Processes \ {p} : pc'[q] = pc[q] /\ op'[q] = op[q]
           /\ pc' \in [Processes -> Places]
           /\ op' = [op EXCEPT ![p] = op'[p]]
           /\ UNCHANGED disk
  <1> USE DEF Goto, GoOn, Return, Types
  <1>1. CASE Begin(p)
    BY <1>1 DEF Begin, Places
  <1>2. CASE LoadConfig(p)
    BY <1>2 DEF LoadConfig, Places
  <1>3. CASE Locate(p)
    BY <1>3 DEF Locate, Places
  <1>4. CASE InspectMarker(p)
    BY <1>4 DEF InspectMarker, Places
  <1>5. CASE InspectFile(p)
    BY <1>5 DEF InspectFile, Places
  <1>6. CASE Open(p)
    BY <1>6 DEF Open, Places
  <1>7. CASE ReadFirst(p)
    BY <1>7 DEF ReadFirst, Places
  <1>8. CASE ReadSecond(p)
    BY <1>8 DEF ReadSecond, Places
  <1>9. CASE Restat(p)
    BY <1>9 DEF Restat, Places
  <1>10. CASE Relstat(p)
    BY <1>10 DEF Relstat, Places
  <1>11. CASE Remarker(p)
    BY <1>11 DEF Remarker, Places
  <1>12. CASE Parse(p)
    BY <1>12 DEF Parse, Places
  <1>13. CASE Prompt(p)
    BY <1>13 DEF Prompt, Places
  <1>14. CASE RecordTrust(p)
    BY <1>14 DEF RecordTrust, Places
  <1>15. CASE UseDefault(p)
    BY <1>15 DEF UseDefault, Places
  <1>16. CASE ForgetTrust(p)
    BY <1>16 DEF ForgetTrust, Places
  <1>17. CASE Offer(p)
    BY <1>17 DEF Offer, Places
  <1>18. CASE Request(p)
    BY <1>18 DEF Request, Places
  <1>19. CASE Consent(p)
    BY <1>19 DEF Consent, Places
  <1>20. CASE Confirm(p)
    BY <1>20 DEF Confirm, Places
  <1> QED BY <1>1, <1>2, <1>3, <1>4, <1>5, <1>6, <1>7, <1>8, <1>9, <1>10, <1>11, <1>12, <1>13, <1>14, <1>15, <1>16, <1>17, <1>18, <1>19, <1>20 DEF Step, Resolve

\* The fields the steps assign.
LEMMA Assigned ==
    ASSUME NEW o \in CommandType
    PROVE  /\ \A n \in Kinds : [o EXCEPT !.kind = n] \in CommandType
           /\ \A n \in Levels : [o EXCEPT !.level = n] \in CommandType
           /\ \A n \in Nat : [o EXCEPT !.marker = n] \in CommandType
           /\ \A n \in Nat : [o EXCEPT !.inode = n] \in CommandType
           /\ \A n \in MaybeContents : [o EXCEPT !.first = n] \in CommandType
           /\ \A n \in MaybeContents : [o EXCEPT !.read = n] \in CommandType
           /\ \A n \in MaybeProfile : [o EXCEPT !.profile = n] \in CommandType
           /\ \A n \in Nat, w \in SUBSET Halves :
                 [o EXCEPT !.stamp = n, !.whole = w] \in CommandType
           /\ \A n \in MaybeProfile, k \in SUBSET (Levels \X MaybeContents) :
                 [o EXCEPT !.profile = n, !.known = k] \in CommandType
           /\ \A c \in SUBSET Profiles, d \in MaybeProfile, t \in [Levels -> MaybeContents], k \in SUBSET (Levels \X MaybeContents) :
                 [o EXCEPT !.configured = c, !.default = d, !.trust = t, !.known = k] \in CommandType
           /\ \A f \in MaybeProfile, b \in BOOLEAN, y \in BOOLEAN, r \in {1, 2} :
                 [o EXCEPT !.flag = f, !.asks = b, !.yes = y, !.round = r] \in CommandType
           /\ \A n \in MaybeProfile, b \in BOOLEAN, y \in BOOLEAN :
                 [o EXCEPT !.profile = n, !.asks = b, !.yes = y] \in CommandType
           /\ \A l \in Levels, c \in MaybeContents, n \in MaybeProfile :
                 [o EXCEPT !.once[l] = c, !.profile = n] \in CommandType
           /\ \A f \in MaybeProfile, c \in [Levels -> MaybeContents], n \in MaybeProfile :
                 [o EXCEPT !.flag = f, !.asks = TRUE, !.once = c, !.signedIn = n, !.round = 2] \in CommandType
  <1>1. \A n \in Kinds : [o EXCEPT !.kind = n] \in CommandType
    BY DEF CommandType
  <1>2. \A n \in Levels : [o EXCEPT !.level = n] \in CommandType
    BY DEF CommandType
  <1>3. \A n \in Nat : [o EXCEPT !.marker = n] \in CommandType
    BY DEF CommandType
  <1>4. \A n \in Nat : [o EXCEPT !.inode = n] \in CommandType
    BY DEF CommandType
  <1>5. \A n \in MaybeContents : [o EXCEPT !.first = n] \in CommandType
    BY DEF CommandType
  <1>6. \A n \in MaybeContents : [o EXCEPT !.read = n] \in CommandType
    BY DEF CommandType
  <1>7. \A n \in MaybeProfile : [o EXCEPT !.profile = n] \in CommandType
    BY DEF CommandType
  <1>8. \A n \in Nat, w \in SUBSET Halves :
           [o EXCEPT !.stamp = n, !.whole = w] \in CommandType
    BY DEF CommandType
  <1>9. \A n \in MaybeProfile, k \in SUBSET (Levels \X MaybeContents) :
           [o EXCEPT !.profile = n, !.known = k] \in CommandType
    BY DEF CommandType
  <1>10. \A c \in SUBSET Profiles, d \in MaybeProfile, t \in [Levels -> MaybeContents], k \in SUBSET (Levels \X MaybeContents) :
           [o EXCEPT !.configured = c, !.default = d, !.trust = t, !.known = k] \in CommandType
    BY DEF CommandType
  <1>11. ASSUME NEW f \in MaybeProfile, NEW b \in BOOLEAN, NEW y \in BOOLEAN, NEW r \in {1, 2}
         PROVE  [o EXCEPT !.flag = f, !.asks = b, !.yes = y, !.round = r] \in CommandType
    BY DEF CommandType
  <1>12. \A n \in MaybeProfile, b \in BOOLEAN, y \in BOOLEAN :
           [o EXCEPT !.profile = n, !.asks = b, !.yes = y] \in CommandType
    BY DEF CommandType
  <1>13. \A l \in Levels, c \in MaybeContents, n \in MaybeProfile :
           [o EXCEPT !.once[l] = c, !.profile = n] \in CommandType
    BY DEF CommandType
  <1>14. \A f \in MaybeProfile, c \in [Levels -> MaybeContents], n \in MaybeProfile :
           [o EXCEPT !.flag = f, !.asks = TRUE, !.once = c, !.signedIn = n, !.round = 2] \in CommandType
    BY DEF CommandType
  <1> QED BY <1>1, <1>2, <1>3, <1>4, <1>5, <1>6, <1>7, <1>8, <1>9, <1>10, <1>11, <1>12, <1>13, <1>14

\* What a step reads of a command.
LEMMA Fields ==
    ASSUME NEW o \in CommandType
    PROVE  /\ o.kind \in Kinds /\ o.flag \in MaybeProfile /\ o.level \in Levels
           /\ o.marker \in Nat /\ o.inode \in Nat /\ o.stamp \in Nat
           /\ o.first \in MaybeContents /\ o.read \in MaybeContents
           /\ o.once \in [Levels -> MaybeContents] /\ o.trust \in [Levels -> MaybeContents]
           /\ o.profile \in MaybeProfile /\ o.configured \subseteq Profiles
           /\ o.known \in SUBSET (Levels \X MaybeContents) /\ o.round \in {1, 2}
           /\ o.asks \in BOOLEAN /\ o.yes \in BOOLEAN /\ o.signedIn \in MaybeProfile
  BY DEF CommandType

\* Every step leaves the record of its command well formed.
LEMMA CommandTypes ==
    ASSUME Types, Opened, NEW p \in Processes, Step(p)
    PROVE  op'[p] \in CommandType
  <1> USE DEF Goto, GoOn, Return
  <1>0. /\ op \in [Processes -> CommandType] /\ op[p] \in CommandType /\ NoCommand \in CommandType
    BY NoCommandTypes DEF Types
  <1>1. CASE Begin(p)
    <2>1. CASE \E flag \in MaybeProfile, asks, yes \in BOOLEAN :
                  op' = [op EXCEPT ![p] = [NoCommand EXCEPT !.flag = flag, !.asks = asks, !.yes = yes,
                                                            !.round = IF asks THEN 1 ELSE 2]]
      <3>1. PICK flag \in MaybeProfile, asks, yes \in BOOLEAN :
                  op' = [op EXCEPT ![p] = [NoCommand EXCEPT !.flag = flag, !.asks = asks, !.yes = yes,
                                                            !.round = IF asks THEN 1 ELSE 2]]
        BY <2>1
      <3>2. (IF asks THEN 1 ELSE 2) \in {1, 2}
        OBVIOUS
      <3>3. [NoCommand EXCEPT !.flag = flag, !.asks = asks, !.yes = yes,
                              !.round = IF asks THEN 1 ELSE 2] \in CommandType
        BY <1>0, <3>2, Assigned
      <3> QED BY <1>0, <3>1, <3>3
    <2>2. CASE \E kind \in {"trust", "untrust"} : op' = [op EXCEPT ![p] = [NoCommand EXCEPT !.kind = kind]]
      <3>1. PICK kind \in Kinds : op' = [op EXCEPT ![p] = [NoCommand EXCEPT !.kind = kind]]
        BY <2>2 DEF Kinds
      <3>2. [NoCommand EXCEPT !.kind = kind] \in CommandType
        BY <1>0, Assigned
      <3> QED BY <1>0, <3>1, <3>2
    <2> QED BY <1>1, <2>1, <2>2 DEF Begin, MaybeProfile
  <1>2. CASE LoadConfig(p)
    <2>1. [op[p] EXCEPT !.configured = configured, !.default = default,
                        !.trust = trust, !.known = approved] \in CommandType
      BY <1>0, Assigned DEF Types
    <2>2. op[p].flag \in MaybeProfile
      BY <1>0, Fields
    <2>3. [op[p] EXCEPT !.profile = op[p].flag] \in CommandType
      BY <1>0, <2>2, Assigned
    <2> QED BY <1>0, <1>2, <2>1, <2>3 DEF LoadConfig
  <1>3. CASE Locate(p)
    <2>1. \A l \in Levels : [op[p] EXCEPT !.level = l] \in CommandType
      BY <1>0, Assigned
    <2> QED BY <1>0, <1>3, <2>1 DEF Locate
  <1>4. CASE InspectMarker(p)
    <2>1. marker[op[p].level] \in Nat
      BY <1>0, Fields DEF Types
    <2>2. [op[p] EXCEPT !.marker = marker[op[p].level]] \in CommandType
      BY <1>0, <2>1, Assigned
    <2> QED BY <1>0, <1>4, <2>2 DEF InspectMarker
  <1>5. CASE InspectFile(p)
    <2>1. path[op[p].level] \in Nat
      BY <1>0, Fields, Numbers DEF Types
    <2>2. [op[p] EXCEPT !.inode = path[op[p].level]] \in CommandType
      BY <1>0, <2>1, Assigned
    <2> QED BY <1>0, <1>5, <2>2 DEF InspectFile
  <1>6. CASE Open(p)
    <2>1. CASE Return(p)
      BY <1>0, <2>1
    <2>2. CASE path[op[p].level] = op[p].inode /\ ~Return(p)
      <3>1. op[p].inode \in Inodes
        BY <1>0, <1>6, Fields, Numbers DEF Types, Open, Opened
      <3>2. stamp[op[p].inode] \in Nat /\ {data[op[p].inode]} \in SUBSET Halves
        BY <3>1 DEF Types
      <3>3. [op[p] EXCEPT !.stamp = stamp[op[p].inode], !.whole = {data[op[p].inode]}] \in CommandType
        BY <1>0, <3>2, Assigned
      <3> QED BY <1>0, <1>6, <2>2, <3>3 DEF Open
    <2> QED BY <1>6, <2>1, <2>2 DEF Open
  <1>7. CASE ReadFirst(p) \/ ReadSecond(p)
    <2>1. op[p].inode \in Inodes
      BY <1>0, <1>7, Fields, Numbers DEF Types, ReadFirst, ReadSecond, Opened
    <2>2. data[op[p].inode][1] \in MaybeContents /\ data[op[p].inode][2] \in MaybeContents
      BY <2>1 DEF Types, Halves, MaybeContents
    <2>3. /\ [op[p] EXCEPT !.first = data[op[p].inode][1]] \in CommandType
          /\ [op[p] EXCEPT !.read = data[op[p].inode][2]] \in CommandType
      BY <1>0, <2>2, Assigned
    <2> QED BY <1>0, <1>7, <2>3 DEF ReadFirst, ReadSecond
  <1>8. CASE Restat(p) \/ Relstat(p) \/ Remarker(p) \/ ForgetTrust(p) \/ Consent(p) \/ Confirm(p)
    BY <1>0, <1>8 DEF Restat, Relstat, Remarker, ForgetTrust, Consent, Confirm
  <1>9. CASE Parse(p)
    <2>1. CASE UNCHANGED op \/ Return(p)
      BY <1>0, <2>1
    <2>2. CASE ~(UNCHANGED op \/ Return(p))
      <3>1. op' = [op EXCEPT ![p].profile = op[p].read.profile] /\ op[p].read.profile \in op[p].configured
        BY <1>9, <2>2 DEF Parse
      <3>2. op[p].read.profile \in MaybeProfile
        BY <1>0, <3>1, Fields DEF MaybeProfile
      <3>3. [op[p] EXCEPT !.profile = op[p].read.profile] \in CommandType
        BY <1>0, <3>2, Assigned
      <3> QED BY <1>0, <3>1, <3>3
    <2> QED BY <2>1, <2>2
  <1>10. CASE Prompt(p)
    <2>1. CASE UNCHANGED op \/ Return(p)
      BY <1>0, <2>1
    <2>2. CASE ~(UNCHANGED op \/ Return(p))
      <3>1. op' = [op EXCEPT ![p] = [@ EXCEPT !.once[op[p].level] = op[p].read,
                                              !.profile = op[p].read.profile]]
        BY <1>10, <2>2 DEF Prompt
      <3>2. op[p].read.profile \in MaybeProfile
        BY <1>10, OneShotBounds DEF Prompt, Opened, MaybeProfile
      <3>3. op[p].level \in Levels /\ op[p].read \in MaybeContents
        BY <1>0, Fields
      <3>4. [op[p] EXCEPT !.once[op[p].level] = op[p].read, !.profile = op[p].read.profile] \in CommandType
        BY <1>0, <3>2, <3>3, Assigned
      <3> QED BY <1>0, <3>1, <3>4
    <2> QED BY <2>1, <2>2
  <1>11. CASE RecordTrust(p)
    <2>1. CASE Return(p)
      BY <1>0, <2>1
    <2>2. CASE ~Return(p)
      <3>1. /\ op[p].read.profile \in configured
            /\ approved' = approved \cup {<<op[p].level, op[p].read>>}
            /\ op' = [op EXCEPT ![p] = [@ EXCEPT !.profile = op[p].read.profile, !.known = approved']]
        BY <1>11, <2>2 DEF RecordTrust
      <3>2. op[p].read.profile \in MaybeProfile /\ approved' \in SUBSET (Levels \X MaybeContents)
        BY <1>0, <3>1, Fields DEF MaybeProfile, Types
      <3>3. [op[p] EXCEPT !.profile = op[p].read.profile, !.known = approved'] \in CommandType
        BY <1>0, <3>2, Assigned
      <3> QED BY <1>0, <3>1, <3>3
    <2> QED BY <2>1, <2>2
  <1>12. CASE UseDefault(p)
    <2>1. \A name \in Fallback(op[p]) : name \in MaybeProfile
      BY <1>0, Fields DEF Fallback, MaybeProfile
    <2>2. \A name \in Fallback(op[p]) : [op[p] EXCEPT !.profile = name] \in CommandType
      BY <1>0, <2>1, Assigned
    <2> QED BY <1>0, <1>12, <2>2 DEF UseDefault
  <1>13. CASE Offer(p)
    <2>1. CASE Return(p)
      BY <1>0, <2>1
    <2>2. CASE ~Return(p)
      <3>1. PICK signedIn \in {NoProfile} \cup
                    (IF op[p].profile = NoProfile THEN Profiles ELSE {op[p].profile}) :
               op' = [op EXCEPT ![p] =
                    [NoCommand EXCEPT !.flag = FlagAfter(op[p], signedIn), !.asks = TRUE,
                                      !.once = op[p].once, !.signedIn = signedIn,
                                      !.round = 2]]
        BY <1>13, <2>2 DEF Offer, SignInFor
      <3>2. signedIn \in MaybeProfile /\ FlagAfter(op[p], signedIn) \in MaybeProfile
            /\ op[p].once \in [Levels -> MaybeContents]
        BY <1>0, Fields DEF FlagAfter, MaybeProfile
      <3>3. [NoCommand EXCEPT !.flag = FlagAfter(op[p], signedIn), !.asks = TRUE,
                              !.once = op[p].once, !.signedIn = signedIn, !.round = 2] \in CommandType
        BY <1>0, <3>2, Assigned
      <3> QED BY <1>0, <3>1, <3>3
    <2> QED BY <2>1, <2>2
  <1>14. CASE Request(p)
    <2>1. [NoCommand EXCEPT !.profile = op[p].profile, !.asks = op[p].asks, !.yes = op[p].yes] \in CommandType
      <3>1. op[p].profile \in MaybeProfile /\ op[p].asks \in BOOLEAN /\ op[p].yes \in BOOLEAN
        BY <1>0, Fields
      <3> QED BY <1>0, <3>1, Assigned
    <2> QED BY <1>0, <1>14, <2>1 DEF Request
  <1> QED BY <1>1, <1>2, <1>3, <1>4, <1>5, <1>6, <1>7, <1>8, <1>9, <1>10, <1>11, <1>12, <1>13, <1>14
          DEF Step, Resolve

-----------------------------------------------------------------------------
(* What steps change of a command, and what they leave.                     *)
SameReading(o, n) == /\ n.inode = o.inode /\ n.stamp = o.stamp /\ n.first = o.first
                     /\ n.read = o.read /\ n.whole = o.whole
SameTrust(o, n)   == n.trust = o.trust /\ n.known = o.known /\ n.once = o.once /\ n.level = o.level
SameUser(o, n)    == n.flag = o.flag /\ n.round = o.round /\ n.signedIn = o.signedIn

\* Membership of the sets the places, markers and values of a command range over.
LEMMA LevelSet ==
    ASSUME NEW o \in CommandType, NEW n,
           NEW r, r = [o EXCEPT !.level = n]
    PROVE  /\ SameReading(o, r) /\ SameUser(o, r) /\ r.trust = o.trust
           /\ r.known = o.known /\ r.once = o.once /\ r.profile = o.profile
  BY DEF CommandType, SameReading, SameTrust, SameUser

LEMMA MarkerSet ==
    ASSUME NEW o \in CommandType, NEW n,
           NEW r, r = [o EXCEPT !.marker = n]
    PROVE  /\ SameReading(o, r) /\ SameTrust(o, r) /\ SameUser(o, r)
           /\ r.profile = o.profile
  BY DEF CommandType, SameReading, SameTrust, SameUser

LEMMA InodeSet ==
    ASSUME NEW o \in CommandType, NEW n,
           NEW r, r = [o EXCEPT !.inode = n]
    PROVE  /\ SameTrust(o, r) /\ SameUser(o, r) /\ r.inode = n /\ r.read = o.read
  BY DEF CommandType, SameReading, SameTrust, SameUser

LEMMA FirstSet ==
    ASSUME NEW o \in CommandType, NEW n,
           NEW r, r = [o EXCEPT !.first = n]
    PROVE  /\ SameTrust(o, r) /\ SameUser(o, r) /\ r.first = n
           /\ r.inode = o.inode /\ r.stamp = o.stamp /\ r.whole = o.whole
           /\ r.read = o.read
  BY DEF CommandType, SameReading, SameTrust, SameUser

LEMMA ReadSet ==
    ASSUME NEW o \in CommandType, NEW n,
           NEW r, r = [o EXCEPT !.read = n]
    PROVE  /\ SameTrust(o, r) /\ SameUser(o, r) /\ r.read = n
           /\ r.inode = o.inode /\ r.stamp = o.stamp /\ r.whole = o.whole
           /\ r.first = o.first
  BY DEF CommandType, SameReading, SameTrust, SameUser

LEMMA ProfileSet ==
    ASSUME NEW o \in CommandType, NEW n,
           NEW r, r = [o EXCEPT !.profile = n]
    PROVE  /\ SameReading(o, r) /\ SameTrust(o, r) /\ SameUser(o, r)
           /\ r.profile = n
  BY DEF CommandType, SameReading, SameTrust, SameUser

LEMMA KindSet ==
    ASSUME NEW o \in CommandType, NEW n,
           NEW r, r = [o EXCEPT !.kind = n]
    PROVE  /\ SameReading(o, r) /\ SameTrust(o, r) /\ SameUser(o, r)
           /\ r.profile = o.profile
  BY DEF CommandType, SameReading, SameTrust, SameUser


\* What a step of each kind does, field by field.
LEMMA BeginDoes ==
    ASSUME Types, NEW p \in Processes, Begin(p)
    PROVE  LET n == op'[p]
           IN  /\ pc'[p] \in {"load", "locate"}
               /\ SameReading(NoCommand, n) /\ SameTrust(NoCommand, n) /\ n.signedIn = NoProfile
  <1>0. NoCommand \in CommandType /\ NoCommand.signedIn = NoProfile
        /\ op \in [Processes -> CommandType] /\ pc \in [Processes -> Places]
    BY NoCommandTypes, NoCommandFields DEF Types
  <1>1. CASE \E flag \in Profiles \cup {NoProfile}, asks, yes \in BOOLEAN :
                /\ op' = [op EXCEPT ![p] = [NoCommand EXCEPT !.flag = flag, !.asks = asks, !.yes = yes,
                                                             !.round = IF asks THEN 1 ELSE 2]]
                /\ Goto(p, "load")
    <2>1. PICK flag \in MaybeProfile, asks \in BOOLEAN, yes \in BOOLEAN :
                /\ op' = [op EXCEPT ![p] = [NoCommand EXCEPT !.flag = flag, !.asks = asks, !.yes = yes,
                                                             !.round = IF asks THEN 1 ELSE 2]]
                /\ Goto(p, "load")
      BY <1>1 DEF MaybeProfile
    <2>2. PICK round \in {1, 2} : round = IF asks THEN 1 ELSE 2
      OBVIOUS
    <2>3. op'[p] = [NoCommand EXCEPT !.flag = flag, !.asks = asks, !.yes = yes, !.round = round]
      BY <1>0, <2>1, <2>2
    <2> QED BY <1>0, <2>1, <2>3 DEF Goto, CommandType, SameReading, SameTrust, SameUser
  <1>2. CASE \E kind \in {"trust", "untrust"} :
                /\ op' = [op EXCEPT ![p] = [NoCommand EXCEPT !.kind = kind]] /\ Goto(p, "locate")
    <2>1. PICK kind \in Kinds : op'[p] = [NoCommand EXCEPT !.kind = kind] /\ pc'[p] = "locate"
      BY <1>0, <1>2 DEF Goto, Kinds
    <2> QED BY <1>0, <2>1, KindSet DEF SameUser
  <1> QED BY <1>1, <1>2 DEF Begin

\* Looking up the profile in the configuration and in the flag.
LEMMA LoadDoes ==
    ASSUME Types, NEW p \in Processes, LoadConfig(p)
    PROVE  LET o == op[p] n == op'[p]
           IN  /\ pc[p] = "load"
               /\ \/ pc'[p] = "idle" /\ n = NoCommand
                  \/ /\ pc'[p] = "locate" /\ o.flag = NoProfile /\ SameReading(o, n) /\ SameUser(o, n)
                     /\ n.trust = trust /\ n.known = approved
                  \/ /\ pc'[p] = (IF o.round = 1 THEN "offer" ELSE "connect") /\ n.profile = o.flag
                     /\ SameReading(o, n) /\ SameTrust(o, n) /\ SameUser(o, n)
  <1>0. /\ op \in [Processes -> CommandType] /\ op[p] \in CommandType /\ pc \in [Processes -> Places]
        /\ op[p].flag \in MaybeProfile
    BY Fields DEF Types
  <1>1. CASE Return(p)
    BY <1>0, <1>1 DEF LoadConfig, Return
  <1>2. CASE /\ op[p].flag = NoProfile
             /\ op' = [op EXCEPT ![p] = [@ EXCEPT !.configured = configured, !.default = default,
                                                  !.trust = trust, !.known = approved]]
             /\ Goto(p, "locate")
    <2>1. op'[p] = [op[p] EXCEPT !.configured = configured, !.default = default,
                                 !.trust = trust, !.known = approved]
      BY <1>0, <1>2
    <2>2. configured \in SUBSET Profiles /\ default \in MaybeProfile
          /\ trust \in [Levels -> MaybeContents] /\ approved \in SUBSET (Levels \X MaybeContents)
      BY DEF Types
    <2>3. SameReading(op[p], op'[p]) /\ SameUser(op[p], op'[p])
          /\ op'[p].trust = trust /\ op'[p].known = approved
      BY <1>0, <2>1, <2>2 DEF CommandType, SameReading, SameTrust, SameUser
    <2> QED BY <1>0, <1>2, <2>3 DEF LoadConfig, Goto
  <1>3. CASE op' = [op EXCEPT ![p].profile = op[p].flag] /\ GoOn(p)
    <2>1. op'[p] = [op[p] EXCEPT !.profile = op[p].flag]
      BY <1>0, <1>3
    <2> QED BY <1>0, <1>3, <2>1, ProfileSet DEF GoOn, Goto, LoadConfig
  <1> QED BY <1>1, <1>2, <1>3 DEF LoadConfig

\* The walk up the directories reads nothing.
LEMMA LocateDoes ==
    ASSUME Types, NEW p \in Processes, Locate(p)
    PROVE  LET o == op[p] n == op'[p]
           IN  /\ pc[p] = "locate"
               /\ \/ pc'[p] = "idle" /\ n = NoCommand
                  \/ /\ pc'[p] \in {"locate", "marker", "forget", "default"}
                     /\ SameReading(o, n) /\ SameUser(o, n) /\ n.trust = o.trust /\ n.known = o.known
  <1>0. /\ op \in [Processes -> CommandType] /\ op[p] \in CommandType /\ pc \in [Processes -> Places]
    BY DEF Types
  <1>1. CASE Return(p)
    BY <1>0, <1>1 DEF Locate, Return
  <1>2. CASE UNCHANGED op /\ ~Return(p)
    BY <1>0, <1>2 DEF Locate, Goto, SameReading, SameUser
  <1>3. CASE ~UNCHANGED op /\ ~Return(p)
    <2>1. PICK l \in Levels : op' = [op EXCEPT ![p].level = l] /\ UNCHANGED pc
      BY <1>3 DEF Locate
    <2>2. op'[p] = [op[p] EXCEPT !.level = l]
      BY <1>0, <2>1
    <2> QED BY <1>0, <1>3, <2>1, <2>2, LevelSet DEF Locate
  <1> QED BY <1>1, <1>2, <1>3

\* Looking at the directory and the file.
LEMMA InspectDoes ==
    ASSUME Types, NEW p \in Processes, InspectMarker(p) \/ InspectFile(p)
    PROVE  LET o == op[p] n == op'[p]
           IN  \/ pc'[p] = "idle" /\ n = NoCommand
               \/ /\ pc[p] = "marker" /\ pc'[p] = "inspect"
                  /\ SameReading(o, n) /\ SameTrust(o, n) /\ SameUser(o, n)
               \/ /\ pc[p] = "inspect" /\ pc'[p] = "open"
                  /\ n.inode = path[o.level] /\ n.inode # 0 /\ n.inode \in 0..Existing
                  /\ n.read = o.read /\ SameTrust(o, n) /\ SameUser(o, n)
  <1>0. /\ op \in [Processes -> CommandType] /\ op[p] \in CommandType /\ pc \in [Processes -> Places]
        /\ marker[op[p].level] \in Nat /\ path[op[p].level] \in Nat /\ path[op[p].level] \in 0..Existing
    BY Fields, Numbers DEF Types
  <1>1. CASE Return(p)
    BY <1>0, <1>1 DEF Return
  <1>2. CASE InspectMarker(p) /\ ~Return(p)
    <2>1. op'[p] = [op[p] EXCEPT !.marker = marker[op[p].level]]
      BY <1>0, <1>2 DEF InspectMarker
    <2> QED BY <1>0, <1>2, <2>1, MarkerSet DEF InspectMarker, Goto
  <1>3. CASE InspectFile(p) /\ ~Return(p)
    <2>1. op'[p] = [op[p] EXCEPT !.inode = path[op[p].level]]
      BY <1>0, <1>3 DEF InspectFile
    <2> QED BY <1>0, <1>3, <2>1, InodeSet DEF InspectFile, Goto
  <1> QED BY <1>1, <1>2, <1>3

\* Opening and reading.
LEMMA ReadDoes ==
    ASSUME Types, Opened, NEW p \in Processes, Open(p) \/ ReadFirst(p) \/ ReadSecond(p)
    PROVE  LET o == op[p] n == op'[p] d == data[op[p].inode]
           IN  \/ pc'[p] = "idle" /\ n = NoCommand
               \/ /\ n.inode = o.inode /\ o.inode \in Inodes /\ SameTrust(o, n) /\ SameUser(o, n)
                  /\ \/ /\ pc[p] = "open" /\ pc'[p] = "readFirst"
                        /\ n.stamp = stamp[o.inode] /\ n.whole = {d} /\ n.read = o.read
                     \/ /\ pc[p] = "readFirst" /\ pc'[p] = "readSecond"
                        /\ n.stamp = o.stamp /\ n.whole = o.whole /\ n.first = d[1] /\ n.read = o.read
                     \/ /\ pc[p] = "readSecond" /\ pc'[p] = "restat"
                        /\ n.stamp = o.stamp /\ n.whole = o.whole /\ n.first = o.first
                        /\ n.read = d[2] /\ n.read \in Contents
  <1>0. /\ op \in [Processes -> CommandType] /\ op[p] \in CommandType /\ pc \in [Processes -> Places]
    BY DEF Types
  <1>1. op[p].inode \in Inodes
    BY Fields, Numbers DEF Types, Open, ReadFirst, ReadSecond, Opened
  <1>2. data[op[p].inode] \in Halves /\ stamp[op[p].inode] \in Nat
    BY <1>1 DEF Types
  <1>3. data[op[p].inode][1] \in Contents /\ data[op[p].inode][2] \in Contents
    BY <1>2 DEF Halves
  <1>4. CASE Return(p)
    BY <1>0, <1>4 DEF Return
  <1>5. CASE Open(p) /\ ~Return(p)
    <2>1. op'[p] = [op[p] EXCEPT !.stamp = stamp[op[p].inode], !.whole = {data[op[p].inode]}]
      BY <1>0, <1>5 DEF Open
    <2>2. {data[op[p].inode]} \in SUBSET Halves
      BY <1>2
    <2> QED BY <1>0, <1>1, <1>2, <1>5, <2>1, <2>2 DEF Open, Goto, CommandType, SameReading, SameTrust, SameUser
  <1>6. CASE ReadFirst(p)
    <2>1. op'[p] = [op[p] EXCEPT !.first = data[op[p].inode][1]] /\ data[op[p].inode][1] \in MaybeContents
      BY <1>0, <1>3, <1>6 DEF ReadFirst, MaybeContents
    <2> QED BY <1>0, <1>1, <1>6, <2>1, FirstSet DEF ReadFirst, Goto
  <1>7. CASE ReadSecond(p)
    <2>1. op'[p] = [op[p] EXCEPT !.read = data[op[p].inode][2]] /\ data[op[p].inode][2] \in MaybeContents
      BY <1>0, <1>3, <1>7 DEF ReadSecond, MaybeContents
    <2> QED BY <1>0, <1>1, <1>3, <1>7, <2>1, ReadSet DEF ReadSecond, Goto
  <1> QED BY <1>4, <1>5, <1>6, <1>7

\* The comparisons afterwards change nothing.
LEMMA CompareDoes ==
    ASSUME Types, NEW p \in Processes, Restat(p) \/ Relstat(p) \/ Remarker(p)
    PROVE  \/ pc'[p] = "idle" /\ op'[p] = NoCommand
           \/ /\ op'[p] = op[p]
              /\ \/ pc[p] = "restat" /\ pc'[p] = "relstat" /\ stamp[op[p].inode] = op[p].stamp
                 \/ pc[p] = "relstat" /\ pc'[p] = "remarker"
                 \/ pc[p] = "remarker" /\ pc'[p] = "parse"
  <1>0. op \in [Processes -> CommandType] /\ pc \in [Processes -> Places]
    BY DEF Types
  <1>1. CASE Restat(p)
    BY <1>0, <1>1 DEF Restat, Unchanged, Goto, Return
  <1>2. CASE Relstat(p)
    BY <1>0, <1>2 DEF Relstat, Goto, Return
  <1>3. CASE Remarker(p)
    BY <1>0, <1>3 DEF Remarker, Goto, Return
  <1> QED BY <1>1, <1>2, <1>3

\* A profile is followed only if the contents that name it are approved.
LEMMA FollowDoes ==
    ASSUME Types, Opened, NEW p \in Processes, Parse(p) \/ Prompt(p) \/ RecordTrust(p)
    PROVE  LET o == op[p] n == op'[p]
           IN  /\ pc[p] \in {"parse", "prompt", "always", "record"}
               /\ \/ pc'[p] = "idle" /\ n = NoCommand
                  \/ /\ n = o /\ pc[p] \in {"parse", "prompt"}
                     /\ pc'[p] \in {"record", "prompt", "always"}
                  \/ /\ pc'[p] \in {"offer", "connect"} /\ SameUser(o, n)
                     /\ n.profile = n.read.profile /\ n.inode = o.inode
                     /\ \/ n.trust[n.level] = n.read /\ n.trust = o.trust /\ n.known = o.known
                        \/ n.once[n.level] = n.read
                        \/ <<n.level, n.read>> \in n.known
                     /\ n.level \in Levels
  <1>0. /\ op \in [Processes -> CommandType] /\ op[p] \in CommandType /\ pc \in [Processes -> Places]
        /\ op[p].level \in Levels /\ op[p].read \in MaybeContents
        /\ op[p].once \in [Levels -> MaybeContents]
    BY Fields DEF Types
  <1>1. CASE Return(p)
    BY <1>0, <1>1 DEF Return, Parse, Prompt, RecordTrust
  <1>2. CASE Parse(p) /\ ~Return(p)
    <2>1. CASE UNCHANGED op /\ (Goto(p, "record") \/ Goto(p, "prompt"))
      BY <1>0, <1>2, <2>1 DEF Parse, Goto
    <2>2. CASE ~(UNCHANGED op /\ (Goto(p, "record") \/ Goto(p, "prompt")))
      <3>1. /\ op[p].read.profile \in op[p].configured
            /\ Trusted(op[p].trust[op[p].level], op[p].read) \/ op[p].once[op[p].level] = op[p].read
            /\ op' = [op EXCEPT ![p].profile = op[p].read.profile] /\ GoOn(p) /\ pc[p] = "parse"
        BY <1>2, <2>2 DEF Parse
      <3>2. op[p].read.profile \in MaybeProfile /\ op'[p] = [op[p] EXCEPT !.profile = op[p].read.profile]
        BY <1>0, <3>1, Fields DEF MaybeProfile
      <3>3. SameReading(op[p], op'[p]) /\ SameTrust(op[p], op'[p]) /\ SameUser(op[p], op'[p])
            /\ op'[p].profile = op[p].read.profile
        BY <1>0, <3>2, ProfileSet
      <3> QED BY <1>0, <3>1, <3>3 DEF SameReading, SameTrust, GoOn, Goto, Trusted
    <2> QED BY <2>1, <2>2
  <1>3. CASE Prompt(p) /\ ~Return(p)
    <2>1. CASE UNCHANGED op /\ Goto(p, "always")
      BY <1>0, <1>3, <2>1 DEF Prompt, Goto
    <2>2. CASE ~(UNCHANGED op /\ Goto(p, "always"))
      <3>1. /\ op' = [op EXCEPT ![p] = [@ EXCEPT !.once[op[p].level] = op[p].read,
                                                 !.profile = op[p].read.profile]]
            /\ GoOn(p) /\ pc[p] = "prompt"
        BY <1>3, <2>2 DEF Prompt
      <3>2. op[p].read.profile \in MaybeProfile
        BY <3>1, OneShotBounds DEF Opened, MaybeProfile
      <3>3. op'[p] = [op[p] EXCEPT !.once[op[p].level] = op[p].read, !.profile = op[p].read.profile]
        BY <1>0, <3>1
      <3>4. SameReading(op[p], op'[p]) /\ SameUser(op[p], op'[p]) /\ op'[p].level = op[p].level
            /\ op'[p].profile = op[p].read.profile /\ op'[p].once[op[p].level] = op[p].read
        BY <1>0, <3>2, <3>3 DEF CommandType, SameReading, SameTrust, SameUser
      <3> QED BY <1>0, <3>1, <3>4 DEF SameReading, GoOn, Goto
    <2> QED BY <2>1, <2>2
  <1>4. CASE RecordTrust(p) /\ ~Return(p)
    <2>1. /\ op[p].read.profile \in configured
          /\ approved' = approved \cup {<<op[p].level, op[p].read>>}
          /\ op' = [op EXCEPT ![p] = [@ EXCEPT !.profile = op[p].read.profile, !.known = approved']]
          /\ GoOn(p) /\ pc[p] \in {"always", "record"}
      BY <1>4 DEF RecordTrust
    <2>2. op[p].read.profile \in MaybeProfile /\ approved' \in SUBSET (Levels \X MaybeContents)
      BY <1>0, <2>1 DEF MaybeProfile, Types
    <2>3. op'[p] = [op[p] EXCEPT !.profile = op[p].read.profile, !.known = approved']
      BY <1>0, <2>1
    <2>4. SameReading(op[p], op'[p]) /\ SameUser(op[p], op'[p]) /\ op'[p].level = op[p].level
          /\ op'[p].profile = op[p].read.profile /\ op'[p].known = approved'
      BY <1>0, <2>2, <2>3 DEF CommandType, SameReading, SameTrust, SameUser
    <2> QED BY <1>0, <2>1, <2>4 DEF SameReading, GoOn, Goto
  <1> QED BY <1>1, <1>2, <1>3, <1>4

\* The default profile is nobody's contents.
LEMMA DefaultDoes ==
    ASSUME Types, NEW p \in Processes, UseDefault(p)
    PROVE  LET o == op[p] n == op'[p]
           IN  /\ pc[p] = "default"
               /\ \/ pc'[p] = "idle" /\ n = NoCommand
                  \/ /\ pc'[p] \in {"offer", "connect"}
                     /\ SameReading(o, n) /\ SameTrust(o, n) /\ SameUser(o, n)
  <1>0. /\ op \in [Processes -> CommandType] /\ op[p] \in CommandType /\ pc \in [Processes -> Places]
    BY DEF Types
  <1>1. CASE Return(p)
    BY <1>0, <1>1 DEF UseDefault, Return
  <1>2. CASE UNCHANGED op /\ GoOn(p)
    BY <1>0, <1>2 DEF UseDefault, GoOn, Goto, SameReading, SameTrust, SameUser
  <1>3. CASE \E name \in Fallback(op[p]) : op' = [op EXCEPT ![p].profile = name] /\ GoOn(p)
    <2>1. PICK name \in Fallback(op[p]) : op' = [op EXCEPT ![p].profile = name] /\ GoOn(p)
      BY <1>3
    <2>2. name \in MaybeProfile
      BY <1>0, Fields DEF Fallback, MaybeProfile
    <2>3. op'[p] = [op[p] EXCEPT !.profile = name]
      BY <1>0, <2>1
    <2> QED BY <1>0, <2>1, <2>2, <2>3, ProfileSet DEF UseDefault, GoOn, Goto
  <1> QED BY <1>1, <1>2, <1>3 DEF UseDefault

\* After the offer a command starts over, as the profile signed in to.
LEMMA UseDoes ==
    ASSUME Types, NEW p \in Processes,
           Offer(p) \/ Request(p) \/ Consent(p) \/ Confirm(p) \/ ForgetTrust(p)
    PROVE  LET n == op'[p]
           IN  \/ pc'[p] = "idle" /\ n = NoCommand
               \/ /\ pc'[p] = "load" /\ SameReading(NoCommand, n) /\ n.round = 2
                  /\ n.signedIn # NoProfile => n.flag = n.signedIn
               \/ pc'[p] = "preview" /\ SameReading(NoCommand, n) /\ n.signedIn = NoProfile
               \/ pc[p] = "preview" /\ pc'[p] = "confirm" /\ n = op[p]
  <1>0. /\ op \in [Processes -> CommandType] /\ op[p] \in CommandType /\ pc \in [Processes -> Places]
        /\ NoCommand \in CommandType /\ NoCommand.signedIn = NoProfile
    BY NoCommandTypes, NoCommandFields DEF Types
  <1>1. CASE Return(p)
    BY <1>0, <1>1 DEF Return
  <1>2. CASE Offer(p) /\ ~Return(p)
    <2>1. PICK signedIn \in {NoProfile} \cup
                  (IF op[p].profile = NoProfile THEN Profiles ELSE {op[p].profile}) :
             /\ op' = [op EXCEPT ![p] =
                    [NoCommand EXCEPT !.flag = FlagAfter(op[p], signedIn), !.asks = TRUE,
                                      !.once = op[p].once, !.signedIn = signedIn,
                                      !.round = 2]]
             /\ Goto(p, "load")
      BY <1>2 DEF Offer, SignInFor
    <2>2. signedIn \in MaybeProfile /\ FlagAfter(op[p], signedIn) \in MaybeProfile
          /\ op[p].once \in [Levels -> MaybeContents]
      BY <1>0, Fields DEF FlagAfter, MaybeProfile
    <2>3. op'[p] = [NoCommand EXCEPT !.flag = FlagAfter(op[p], signedIn), !.asks = TRUE,
                                     !.once = op[p].once, !.signedIn = signedIn, !.round = 2]
      BY <1>0, <2>1
    <2>4. SameReading(NoCommand, op'[p]) /\ op'[p].flag = FlagAfter(op[p], signedIn)
          /\ op'[p].signedIn = signedIn /\ op'[p].round = 2
      BY <1>0, <2>2, <2>3 DEF CommandType, SameReading, SameTrust, SameUser
    <2> QED BY <1>0, <2>1, <2>4 DEF Goto, FlagAfter
  <1>3. CASE Request(p) /\ ~Return(p)
    <2>1. op'[p] = [NoCommand EXCEPT !.profile = op[p].profile, !.asks = op[p].asks, !.yes = op[p].yes]
      BY <1>0, <1>3 DEF Request
    <2>2. op[p].profile \in MaybeProfile /\ op[p].asks \in BOOLEAN /\ op[p].yes \in BOOLEAN
      BY <1>0, Fields
    <2>3. SameReading(NoCommand, op'[p]) /\ SameUser(NoCommand, op'[p])
      BY <1>0, <2>1, <2>2 DEF CommandType, SameReading, SameTrust, SameUser
    <2> QED BY <1>0, <1>3, <2>3 DEF Request, Goto, SameUser
  <1>4. CASE (Consent(p) \/ Confirm(p) \/ ForgetTrust(p)) /\ ~Return(p)
    BY <1>0, <1>4 DEF Consent, Confirm, ForgetTrust, Goto
  <1> QED BY <1>1, <1>2, <1>3, <1>4

-----------------------------------------------------------------------------
(* Reading: what has been read so far, unless the stamp tells, is what the  *)
(* file holds now.                                                          *)
ReadSoFar(p) ==
    LET o == op[p]
        d == data[o.inode]
    IN  /\ pc[p] \in {"readFirst", "readSecond", "restat"} =>
              /\ o.stamp <= stamp[o.inode]
              /\ o.stamp = stamp[o.inode] =>
                    /\ d \in o.whole
                    /\ pc[p] \in {"readSecond", "restat"} => o.first = d[1]
                    /\ pc[p] = "restat" => o.read = d[2]
        /\ pc[p] \in {"relstat", "remarker", "parse", "prompt", "always", "record"} =>
              <<o.first, o.read>> \in o.whole

(* Trust: what a command holds for trusted was approved when it looked.     *)
Resolving == {"locate", "marker", "inspect", "open", "readFirst", "readSecond", "restat",
              "relstat", "remarker", "parse", "prompt", "always", "record", "default", "forget"}

Entitled(p) ==
    LET o == op[p]
    IN  /\ pc[p] \in Resolving =>
              \A l \in Levels : o.trust[l] # NoContent => <<l, o.trust[l]>> \in o.known
        /\ pc[p] \in {"load", "locate", "marker", "inspect", "open", "readFirst", "readSecond", "default"} =>
              o.read = NoContent
        /\ pc[p] \in {"offer", "connect"} /\ o.read # NoContent =>
              /\ o.profile = o.read.profile
              /\ <<o.level, o.read>> \in o.known \/ o.once[o.level] = o.read

(* Signing in: the second selection of a profile has the flag.              *)
SignedInKept(p) ==
    LET o == op[p]
    IN  o.signedIn # NoProfile =>
            /\ o.flag = o.signedIn /\ o.round = 2 /\ pc[p] \in {"load", "connect"}
            /\ pc[p] = "connect" => o.profile = o.signedIn

RecordsApproved == \A l \in Levels : trust[l] # NoContent => <<l, trust[l]>> \in approved

OInv ==
    /\ Types /\ Opened /\ RecordsApproved
    /\ \A p \in Processes : ReadSoFar(p) /\ Entitled(p) /\ SignedInKept(p)

\* What a command that starts over, or ends, has in hand: nothing.
LEMMA NothingInHand ==
    /\ NoCommand.read = NoContent /\ NoCommand.inode = 0 /\ NoCommand.signedIn = NoProfile
    /\ \A l \in Levels : NoCommand.trust[l] = NoContent
  BY NoCommandFields

\* What a command has opened is a file that was there, or one that has since been replaced.
LEMMA OpenedStep ==
    ASSUME Types, Opened, NEW p \in Processes, Step(p)
    PROVE  /\ op'[p].inode \in 0..Existing
           /\ pc'[p] \in {"open", "readFirst", "readSecond", "restat"} => op'[p].inode # 0
           /\ pc'[p] \in {"restat", "relstat", "remarker", "parse", "prompt", "always", "record"}
                 => op'[p].read \in Contents
  <1> USE NothingInHand
  <1>0. /\ op[p].inode \in 0..Existing /\ Existing \in Nat
        /\ pc[p] \in {"open", "readFirst", "readSecond", "restat"} => op[p].inode # 0
        /\ pc[p] \in {"restat", "relstat", "remarker", "parse", "prompt", "always", "record"}
              => op[p].read \in Contents
    BY Fields, Numbers DEF Types, Opened
  <1>1. CASE Begin(p)
    BY <1>0, <1>1, BeginDoes DEF SameReading
  <1>2. CASE LoadConfig(p)
    BY <1>0, <1>2, LoadDoes DEF SameReading
  <1>3. CASE Locate(p)
    BY <1>0, <1>3, LocateDoes DEF SameReading
  <1>4. CASE InspectMarker(p) \/ InspectFile(p)
    BY <1>0, <1>4, InspectDoes DEF SameReading
  <1>5. CASE Open(p) \/ ReadFirst(p) \/ ReadSecond(p)
    BY <1>0, <1>5, ReadDoes
  <1>6. CASE Restat(p) \/ Relstat(p) \/ Remarker(p)
    BY <1>0, <1>6, CompareDoes
  <1>7. CASE Parse(p) \/ Prompt(p) \/ RecordTrust(p)
    <2>1. op'[p].inode \in 0..Existing
      <3>1. op'[p].inode = op[p].inode \/ op'[p].inode = 0
        BY <1>7, FollowDoes
      <3> QED BY <1>0, <3>1
    <2>2. pc'[p] \notin {"open", "readFirst", "readSecond", "restat"}
      BY <1>7, FollowDoes
    <2>3. pc'[p] \in {"prompt", "always", "record"} => op'[p] = op[p] /\ pc[p] \in {"parse", "prompt"}
      BY <1>7, FollowDoes
    <2>4. pc'[p] \notin {"relstat", "remarker", "parse"}
      BY <1>7, FollowDoes
    <2> QED BY <1>0, <2>1, <2>2, <2>3, <2>4
  <1>8. CASE UseDefault(p)
    BY <1>0, <1>8, DefaultDoes DEF SameReading
  <1>9. CASE Offer(p) \/ Request(p) \/ Consent(p) \/ Confirm(p) \/ ForgetTrust(p)
    BY <1>0, <1>9, UseDoes DEF SameReading
  <1> QED BY <1>1, <1>2, <1>3, <1>4, <1>5, <1>6, <1>7, <1>8, <1>9 DEF Step, Resolve

\* What a command reads is there.
LEMMA ReadStep ==
    ASSUME OInv, NEW p \in Processes, Step(p)
    PROVE  ReadSoFar(p)'
  <1> USE DEF ReadSoFar
  <1>0. /\ Types /\ Opened /\ ReadSoFar(p)
        /\ data' = data /\ stamp' = stamp
        /\ stamp \in [Inodes -> Nat] /\ data \in [Inodes -> Halves]
    BY OthersStay DEF OInv, Types, disk, files
  <1>1. CASE Begin(p)
    BY <1>0, <1>1, BeginDoes
  <1>2. CASE LoadConfig(p)
    BY <1>0, <1>2, LoadDoes
  <1>3. CASE Locate(p)
    BY <1>0, <1>3, LocateDoes
  <1>4. CASE InspectMarker(p) \/ InspectFile(p)
    BY <1>0, <1>4, InspectDoes
  <1>5. CASE Open(p) \/ ReadFirst(p) \/ ReadSecond(p)
    BY <1>0, <1>5, ReadDoes
  <1>6. CASE Restat(p) \/ Relstat(p) \/ Remarker(p)
    <2>1. CASE pc[p] = "restat" /\ op'[p] = op[p] /\ stamp[op[p].inode] = op[p].stamp
      <3>1. op[p].inode \in Inodes
        BY <1>0, <2>1, Fields, Numbers DEF Types, Opened
      <3>2. data[op[p].inode] \in Halves
        BY <1>0, <3>1
      <3>3. data[op[p].inode] = <<op[p].first, op[p].read>>
        BY <1>0, <2>1, <3>2 DEF Halves
      <3> QED BY <1>0, <1>6, <2>1, <3>3, CompareDoes
    <2> QED BY <1>0, <1>6, <2>1, CompareDoes
  <1>7. CASE Parse(p) \/ Prompt(p) \/ RecordTrust(p)
    <2>1. CASE pc'[p] \in {"idle", "offer", "connect"}
      BY <2>1
    <2>2. CASE pc'[p] \notin {"idle", "offer", "connect"}
      <3>1. op'[p] = op[p] /\ pc[p] \in {"parse", "prompt"} /\ pc'[p] \in {"record", "prompt", "always"}
        BY <1>0, <1>7, <2>2, FollowDoes
      <3> QED BY <1>0, <3>1
    <2> QED BY <2>1, <2>2
  <1>8. CASE UseDefault(p)
    BY <1>0, <1>8, DefaultDoes
  <1>9. CASE Offer(p) \/ Request(p) \/ Consent(p) \/ Confirm(p) \/ ForgetTrust(p)
    BY <1>0, <1>9, UseDoes
  <1> QED BY <1>1, <1>2, <1>3, <1>4, <1>5, <1>6, <1>7, <1>8, <1>9 DEF Step, Resolve

\* What a command follows is approved.
LEMMA EntitledStep ==
    ASSUME OInv, NEW p \in Processes, Step(p)
    PROVE  Entitled(p)'
  <1> USE NothingInHand DEF Entitled, Resolving
  <1>0. /\ Types /\ Opened /\ Entitled(p) /\ op[p].level \in Levels
        /\ \A l \in Levels : trust[l] # NoContent => <<l, trust[l]>> \in approved
    BY Fields DEF OInv, Types, RecordsApproved
  <1>1. CASE Begin(p)
    BY <1>0, <1>1, BeginDoes DEF SameReading, SameTrust
  <1>2. CASE LoadConfig(p)
    BY <1>0, <1>2, LoadDoes DEF SameReading
  <1>3. CASE Locate(p)
    BY <1>0, <1>3, LocateDoes DEF SameReading
  <1>4. CASE InspectMarker(p) \/ InspectFile(p)
    BY <1>0, <1>4, InspectDoes DEF SameReading, SameTrust
  <1>5. CASE Open(p) \/ ReadFirst(p) \/ ReadSecond(p)
    BY <1>0, <1>5, ReadDoes DEF SameTrust
  <1>6. CASE Restat(p) \/ Relstat(p) \/ Remarker(p)
    BY <1>0, <1>6, CompareDoes
  <1>7. CASE Parse(p) \/ Prompt(p) \/ RecordTrust(p)
    <2>1. CASE pc'[p] = "idle"
      BY <2>1
    <2>2. CASE pc'[p] \notin {"idle", "offer", "connect"}
      <3>1. op'[p] = op[p] /\ pc[p] \in {"parse", "prompt"} /\ pc'[p] \in {"record", "prompt", "always"}
        BY <1>0, <1>7, <2>2, FollowDoes
      <3> QED BY <1>0, <3>1
    <2>3. CASE pc'[p] \in {"offer", "connect"}
      <3> DEFINE o == op[p]
                 n == op'[p]
      <3>1. /\ n.profile = n.read.profile /\ n.level \in Levels /\ pc[p] \in Resolving
            /\ \/ n.trust[n.level] = n.read /\ n.trust = o.trust /\ n.known = o.known
               \/ n.once[n.level] = n.read
               \/ <<n.level, n.read>> \in n.known
        BY <1>0, <1>7, <2>3, FollowDoes
      <3>2. \A l \in Levels : o.trust[l] # NoContent => <<l, o.trust[l]>> \in o.known
        BY <1>0, <3>1
      <3>3. n.read # NoContent => <<n.level, n.read>> \in n.known \/ n.once[n.level] = n.read
        <4> HIDE DEF o, n
        <4> QED BY <3>1, <3>2
      <3> QED BY <2>3, <3>1, <3>3
    <2> QED BY <2>1, <2>2, <2>3
  <1>8. CASE UseDefault(p)
    BY <1>0, <1>8, DefaultDoes DEF SameReading
  <1>9. CASE Offer(p) \/ Request(p) \/ Consent(p) \/ Confirm(p) \/ ForgetTrust(p)
    BY <1>0, <1>9, UseDoes DEF SameReading
  <1> QED BY <1>1, <1>2, <1>3, <1>4, <1>5, <1>6, <1>7, <1>8, <1>9 DEF Step, Resolve

\* The profile signed in to stays.
LEMMA SignedInStep ==
    ASSUME OInv, NEW p \in Processes, Step(p)
    PROVE  SignedInKept(p)'
  <1> USE NothingInHand DEF SignedInKept
  <1>0. Types /\ Opened /\ SignedInKept(p)
    BY DEF OInv
  <1>1. CASE Begin(p)
    BY <1>0, <1>1, BeginDoes
  <1>2. CASE LoadConfig(p)
    BY <1>0, <1>2, LoadDoes DEF SameUser
  <1>3. CASE Locate(p)
    BY <1>0, <1>3, LocateDoes DEF SameUser
  <1>4. CASE InspectMarker(p) \/ InspectFile(p)
    BY <1>0, <1>4, InspectDoes DEF SameUser
  <1>5. CASE Open(p) \/ ReadFirst(p) \/ ReadSecond(p)
    BY <1>0, <1>5, ReadDoes DEF SameUser
  <1>6. CASE Restat(p) \/ Relstat(p) \/ Remarker(p)
    BY <1>0, <1>6, CompareDoes
  <1>7. CASE Parse(p) \/ Prompt(p) \/ RecordTrust(p)
    BY <1>0, <1>7, FollowDoes DEF SameUser
  <1>8. CASE UseDefault(p)
    BY <1>0, <1>8, DefaultDoes DEF SameUser
  <1>9. CASE Offer(p) \/ Request(p) \/ Consent(p) \/ Confirm(p) \/ ForgetTrust(p)
    BY <1>0, <1>9, UseDoes
  <1> QED BY <1>1, <1>2, <1>3, <1>4, <1>5, <1>6, <1>7, <1>8, <1>9 DEF Step, Resolve

\* What a step does to the configuration.
LEMMA ConfigStep ==
    ASSUME OInv, NEW p \in Processes, Step(p)
    PROVE  /\ configured' \subseteq Profiles /\ default' \in MaybeProfile
           /\ trust' \in [Levels -> MaybeContents] /\ approved' \subseteq Levels \X MaybeContents
           /\ RecordsApproved'
  <1>0. /\ configured \subseteq Profiles /\ default \in MaybeProfile
        /\ trust \in [Levels -> MaybeContents] /\ approved \subseteq Levels \X MaybeContents
        /\ RecordsApproved /\ op[p].level \in Levels /\ op[p].read \in MaybeContents
        /\ op[p].profile \in MaybeProfile
    BY Fields DEF OInv, Types
  <1>1. CASE RecordTrust(p)
    BY <1>0, <1>1 DEF RecordTrust, RecordsApproved
  <1>2. CASE ForgetTrust(p)
    <2>1. CASE UNCHANGED <<trust, approved>>
      BY <1>0, <1>2, <2>1 DEF ForgetTrust, RecordsApproved
    <2>2. CASE /\ trust' = [trust EXCEPT ![op[p].level] = NoContent]
               /\ approved' = {a \in approved : a[1] # op[p].level}
      BY <1>0, <1>2, <2>2 DEF ForgetTrust, RecordsApproved, MaybeContents
    <2> QED BY <1>2, <2>1, <2>2 DEF ForgetTrust
  <1>3. CASE Offer(p)
    <2>1. UNCHANGED <<trust, approved>>
      BY <1>3 DEF Offer
    <2>2. \/ UNCHANGED <<configured, default>>
          \/ \E name \in Profiles : Choose(name)
          \/ \E name \in Profiles \cup ({op[p].profile} \ {NoProfile}) :
                SignIn(name, op[p].profile = NoProfile)
      BY <1>3 DEF Offer, SignInFor
    <2>3. configured' \subseteq Profiles /\ default' \in MaybeProfile
      BY <1>0, <2>2 DEF Choose, SignIn, MaybeProfile
    <2> QED BY <1>0, <2>1, <2>3 DEF RecordsApproved
  <1>4. CASE Begin(p) \/ LoadConfig(p) \/ Locate(p) \/ InspectMarker(p) \/ InspectFile(p)
             \/ Open(p) \/ ReadFirst(p) \/ ReadSecond(p) \/ Restat(p) \/ Relstat(p) \/ Remarker(p)
    BY <1>0, <1>4 DEF Begin, LoadConfig, Locate, InspectMarker, InspectFile, Open, ReadFirst,
                      ReadSecond, Restat, Relstat, Remarker, config, RecordsApproved
  <1>5. CASE Parse(p) \/ Prompt(p) \/ UseDefault(p) \/ Request(p) \/ Consent(p) \/ Confirm(p)
    BY <1>0, <1>5 DEF Parse, Prompt, UseDefault, Request, Consent, Confirm, config, RecordsApproved
  <1> QED BY <1>1, <1>2, <1>3, <1>4, <1>5 DEF Step, Resolve

\* A command's step keeps everything.
LEMMA CommandStep ==
    ASSUME OInv, NEW p \in Processes, Step(p)
    PROVE  OInv'
  <1>0. Types /\ Opened
    BY DEF OInv
  <1>1. /\ \A q \in Processes \ {p} : pc'[q] = pc[q] /\ op'[q] = op[q]
        /\ pc' \in [Processes -> Places] /\ op' = [op EXCEPT ![p] = op'[p]]
        /\ UNCHANGED <<marker, path, data, stamp, changes>>
    BY <1>0, OthersStay DEF disk, files
  <1>2. op' \in [Processes -> CommandType]
    BY <1>0, <1>1, CommandTypes DEF Types
  <1>3. Types'
    BY <1>0, <1>1, <1>2, ConfigStep, OpenedStep, Numbers DEF Types, Existing
  <1>4. Opened'
    BY <1>0, <1>1, OpenedStep DEF Opened
  <1>5. \A q \in Processes \ {p} : (ReadSoFar(q) /\ Entitled(q) /\ SignedInKept(q))'
    BY <1>1 DEF OInv, ReadSoFar, Entitled, SignedInKept
  <1> QED BY <1>3, <1>4, <1>5, ConfigStep, ReadStep, EntitledStep, SignedInStep DEF OInv

-----------------------------------------------------------------------------
(* What others do.                                                          *)

\* A new file is no one's yet; a file rewritten has another stamp.
LEMMA OutsideStep ==
    ASSUME OInv, Outside
    PROVE  OInv'
  <1>0. Types /\ Opened /\ Cardinality(Levels) \in Nat /\ MaxChanges \in Nat
    BY Numbers DEF OInv
  <1> USE DEF Existing, Inodes
  <1>1. ASSUME NEW l \in Levels, ReplaceFile(l) \/ RemoveFile(l) \/ ReplaceMarker(l)
        PROVE  OInv'
    <2>1. /\ UNCHANGED <<stamp, config, begun, pc, op, approved>>
          /\ changes < MaxChanges /\ changes' = changes + 1
      BY <1>1 DEF ReplaceFile, RemoveFile, ReplaceMarker
    <2>2. \/ path' = [path EXCEPT ![l] = 0] /\ data' = data
          \/ /\ path' = [path EXCEPT ![l] = Existing + 1]
             /\ \E c \in Contents : data' = [data EXCEPT ![Existing + 1] = <<c, c>>]
      <3>1. Cardinality(Levels) + changes' = Existing + 1
        BY <1>0, <2>1 DEF Types
      <3> HIDE DEF Existing, Inodes
      <3> QED BY <1>1, <3>1 DEF ReplaceFile, RemoveFile, ReplaceMarker
    <2>3. marker' \in [Levels -> Nat]
      <3>1. marker' = marker \/ marker' = [marker EXCEPT ![l] = changes' + 1]
        BY <1>1 DEF ReplaceFile, RemoveFile, ReplaceMarker
      <3> QED BY <1>0, <2>1, <3>1 DEF Types
    <2>4. Existing' = Existing + 1 /\ Existing \in Nat
      BY <1>0, <2>1 DEF Types
    <2>5. data' \in [Inodes -> Halves] /\ path' \in [Levels -> 0..Existing']
      <3>1. \A c \in Contents : <<c, c>> \in Halves
        BY DEF Halves
      <3>2. data' \in [Inodes -> Halves]
        BY <1>0, <2>2, <3>1 DEF Types
      <3>3. 0 \in 0..Existing' /\ Existing + 1 \in 0..Existing' /\ 0..Existing \subseteq 0..Existing'
        BY <2>4 DEF Types
      <3>4. path' \in [Levels -> 0..Existing']
        <4> HIDE DEF Existing
        <4> QED BY <1>0, <2>2, <3>3 DEF Types
      <3> QED BY <3>2, <3>4
    <2>6. Types'
      <3>1. changes' \in 0..MaxChanges
        BY <1>0, <2>1 DEF Types
      <3>2. \A p \in Processes : op'[p].inode <= Existing'
        BY <1>0, <2>1, <2>4, Fields DEF Types
      <3> QED BY <1>0, <2>1, <2>3, <2>5, <3>1, <3>2 DEF Types, config
    <2>7. \A p \in Processes : op[p].inode \in Inodes => data'[op[p].inode] = data[op[p].inode]
      <3> SUFFICES ASSUME NEW p \in Processes, op[p].inode \in Inodes
                   PROVE  data'[op[p].inode] = data[op[p].inode]
        OBVIOUS
      <3>1. op[p].inode \in Nat /\ op[p].inode <= Existing
        BY <1>0, Fields DEF Types
      <3>2. op[p].inode # Existing + 1
        BY <3>1, <2>4
      <3> HIDE DEF Existing, Inodes
      <3> QED BY <1>0, <2>2, <3>2 DEF Types
    <2>8. \A p \in Processes : ReadSoFar(p)'
      <3> SUFFICES ASSUME NEW p \in Processes PROVE ReadSoFar(p)'
        OBVIOUS
      <3>1. pc[p] \in {"readFirst", "readSecond", "restat"} => op[p].inode \in Inodes
        BY <1>0, Fields, Numbers DEF Types, Opened
      <3> HIDE DEF Existing, Inodes
      <3> QED BY <2>1, <2>7, <3>1 DEF ReadSoFar, OInv
    <2>9. \A p \in Processes : Entitled(p)' /\ SignedInKept(p)'
      BY <2>1 DEF Entitled, SignedInKept, OInv
    <2> QED BY <2>1, <2>6, <2>8, <2>9 DEF OInv, Opened, RecordsApproved, config
  <1>2. ASSUME NEW l \in Levels, Rewrite(l)
        PROVE  OInv'
    <2> DEFINE i == path[l]
    <2>1. /\ UNCHANGED <<marker, path, config, begun, pc, approved>>
          /\ changes' = changes \/ (changes < MaxChanges /\ changes' = changes + 1)
          /\ stamp' = [stamp EXCEPT ![i] = @ + 1] /\ op' = Seen(i)
          /\ \E c \in Contents : data' = [data EXCEPT ![i] = <<@[1], @[1]>>]
                                \/ data' = [data EXCEPT ![i] = <<c, @[2]>>]
      BY <1>2 DEF Rewrite
    <2>2. i \in Inodes
      BY <1>0, <1>2, Numbers DEF Rewrite, Types
    <2>3. data' \in [Inodes -> Halves] /\ \A j \in Inodes \ {i} : data'[j] = data[j]
      <3>1. data[i] \in Halves /\ data \in [Inodes -> Halves]
        BY <1>0, <2>2 DEF Types
      <3>2. <<data[i][1], data[i][1]>> \in Halves /\ \A c \in Contents : <<c, data[i][2]>> \in Halves
        BY <3>1 DEF Halves
      <3>3. PICK d \in Halves : data' = [data EXCEPT ![i] = d]
        BY <2>1, <3>1, <3>2
      <3> QED BY <3>1, <3>3
    <2>4. stamp' \in [Inodes -> Nat] /\ stamp'[i] = stamp[i] + 1
          /\ \A j \in Inodes \ {i} : stamp'[j] = stamp[j]
      BY <1>0, <2>1, <2>2 DEF Types
    <2>5. changes' \in 0..MaxChanges /\ Existing' >= Existing
      BY <1>0, <2>1 DEF Types
    <2>6. ASSUME NEW p \in Processes
          PROVE  \/ op'[p] = op[p]
                 \/ \E w \in SUBSET Halves : op'[p] = [op[p] EXCEPT !.whole = op[p].whole \cup w]
      <3>1. data'[i] \in Halves
        BY <2>2, <2>3
      <3> QED BY <2>1, <3>1 DEF Seen
    <2>7. ASSUME NEW p \in Processes
          PROVE  /\ op'[p] \in CommandType /\ op[p] \in CommandType
                 /\ op'[p].inode = op[p].inode /\ op'[p].stamp = op[p].stamp /\ op'[p].first = op[p].first
                 /\ op'[p].read = op[p].read /\ SameTrust(op[p], op'[p]) /\ SameUser(op[p], op'[p])
                 /\ op'[p].profile = op[p].profile /\ op[p].whole \subseteq op'[p].whole
      <3>0. op[p] \in CommandType
        BY <1>0 DEF Types
      <3>1. CASE op'[p] = op[p]
        BY <3>0, <3>1 DEF SameTrust, SameUser
      <3>2. CASE \E w \in SUBSET Halves : op'[p] = [op[p] EXCEPT !.whole = op[p].whole \cup w]
        BY <3>0, <3>2 DEF CommandType, SameTrust, SameUser
      <3> QED BY <2>6, <3>1, <3>2
    <2>8. op' \in [Processes -> CommandType]
      BY <2>1, <2>7 DEF Seen
    <2>9. \A p \in Processes : op[p].inode \in 0..Existing /\ Existing \in Nat
      BY <1>0, Fields, Numbers DEF Types
    <2>10. Types'
      <3>1. path' \in [Levels -> 0..Existing']
        BY <1>0, <2>1, <2>5 DEF Types
      <3>2. \A p \in Processes : op'[p].inode <= Existing'
        BY <2>5, <2>7, <2>9, <1>0 DEF Types
      <3> QED BY <1>0, <2>1, <2>3, <2>4, <2>5, <2>8, <3>1, <3>2 DEF Types, config
    <2>11. ASSUME NEW p \in Processes
           PROVE  ReadSoFar(p)'
      <3>1. ReadSoFar(p) /\ pc'[p] = pc[p]
        BY <2>1 DEF OInv
      <3>2. pc[p] \in {"readFirst", "readSecond", "restat"} => op[p].inode \in Inodes
        BY <1>0, <2>9, Numbers DEF Opened
      <3>3. CASE op[p].inode = i
        <4>1. op[p].stamp \in Nat /\ stamp[i] \in Nat
          BY <1>0, <2>2, Fields DEF Types
        <4> QED BY <2>4, <2>7, <3>1, <3>3, <4>1 DEF ReadSoFar
      <3>4. CASE op[p].inode # i
        BY <2>3, <2>4, <2>7, <3>1, <3>2, <3>4 DEF ReadSoFar
      <3> QED BY <3>3, <3>4
    <2>12. ASSUME NEW p \in Processes
           PROVE  Entitled(p)' /\ SignedInKept(p)'
      BY <2>1, <2>7 DEF OInv, Entitled, SignedInKept, SameTrust, SameUser
    <2>13. Opened'
      BY <1>0, <2>1, <2>7 DEF Opened
    <2> QED BY <2>1, <2>10, <2>11, <2>12, <2>13 DEF OInv, RecordsApproved, config
  <1>3. CASE Reconfigure
    <2>1. /\ UNCHANGED <<files, trust, begun, pc, op, approved>>
          /\ changes < MaxChanges /\ changes' = changes + 1
          /\ configured' \subseteq configured /\ default' \in configured \cup {default, NoProfile}
      BY <1>3 DEF Reconfigure
    <2>2. Types'
      <3>1. changes' \in 0..MaxChanges /\ Existing' = Existing + 1 /\ Existing \in Nat
        BY <1>0, <2>1 DEF Types
      <3>2. path' \in [Levels -> 0..Existing'] /\ \A p \in Processes : op'[p].inode <= Existing'
        BY <1>0, <2>1, <3>1, Fields DEF Types, files
      <3> QED BY <1>0, <2>1, <3>1, <3>2 DEF Types, files, MaybeProfile
    <2> QED BY <2>1, <2>2 DEF OInv, Opened, RecordsApproved, ReadSoFar, Entitled, SignedInKept, files
  <1> QED BY <1>1, <1>2, <1>3 DEF Outside

\* Nothing has been read, followed or signed in to at first.
LEMMA OneShotInit == Init => OInv
  <1> SUFFICES ASSUME Init PROVE OInv
    OBVIOUS
  <1>0. Cardinality(Levels) \in Nat /\ MaxChanges \in Nat /\ Levels = 1..Cardinality(Levels)
    BY Numbers, OneShotBounds
  <1>1. \A p \in Processes : pc[p] = "idle" /\ op[p] = NoCommand
    BY DEF Init
  <1>2. Types
    <2>1. path \in [Levels -> 0..Existing] /\ changes = 0
      <3>1. PICK nearest \in 1..(Cardinality(Levels) + 1) :
               path = [l \in Levels |-> IF l < nearest THEN 0 ELSE l]
        BY DEF Init
      <3> QED BY <1>0, <3>1 DEF Init, Existing
    <2>2. data \in [Inodes -> Halves] /\ stamp \in [Inodes -> Nat]
      BY DEF Init, Halves
    <2>3. op \in [Processes -> CommandType] /\ pc \in [Processes -> Places]
      BY NoCommandTypes DEF Init, Places
    <2>4. \A p \in Processes : op[p].inode <= Existing
      BY <1>0, <1>1, <2>1, NothingInHand DEF Existing
    <2>5. /\ marker \in [Levels -> Nat] /\ trust \in [Levels -> MaybeContents]
          /\ configured \subseteq Profiles /\ default \in MaybeProfile /\ approved = {}
      BY DEF Init, MaybeContents, MaybeProfile
    <2> QED BY <1>0, <2>1, <2>2, <2>3, <2>4, <2>5 DEF Types
  <1>3. Opened /\ RecordsApproved
    BY <1>1 DEF Opened, RecordsApproved, Init
  <1>4. \A p \in Processes : ReadSoFar(p) /\ Entitled(p) /\ SignedInKept(p)
    BY <1>1, NothingInHand DEF ReadSoFar, Entitled, SignedInKept, Resolving
  <1> QED BY <1>2, <1>3, <1>4 DEF OInv

-----------------------------------------------------------------------------
\* The inductive invariant of a one-shot command: what it has read, what entitles it to the
\* profile it follows, and which profile it signed in to.
THEOREM OneShotSafety == Spec => []OInv
  <1>1. Init => OInv
    BY OneShotInit
  <1>2. OInv /\ [Next]_vars => OInv'
    <2> SUFFICES ASSUME OInv, [Next]_vars PROVE OInv'
      OBVIOUS
    <2>1. CASE Next
      BY <2>1, CommandStep, OutsideStep DEF Next, Step, Outside
    <2>2. CASE UNCHANGED vars
      BY <2>2 DEF vars, disk, files, config, OInv, Types, Existing, Opened, RecordsApproved,
                  ReadSoFar, Entitled, SignedInKept
    <2> QED BY <2>1, <2>2
  <1> QED BY <1>1, <1>2, PTL DEF Spec

\* What is parsed, approved and recorded is what the file was at one moment, whoever replaces,
\* rewrites or moves it meanwhile (readStableProjectFile).
THEOREM ReadAtOneMoment == Spec => []ReadOneMoment
  <1>1. OInv => ReadOneMoment
    BY DEF OInv, ReadSoFar, ReadOneMoment
  <1> QED BY <1>1, OneShotSafety, PTL

\* A command follows a project file only if exactly its contents were approved.
THEOREM FollowsApproved == Spec => []ApprovedOnly
  <1>1. OInv => ApprovedOnly
    BY DEF OInv, Entitled, ApprovedOnly
  <1> QED BY <1>1, OneShotSafety, PTL

\* A command connects as the profile its user has just signed in to.
THEOREM SignInUsed == Spec => []SignedInUsed
  <1>1. OInv => SignedInUsed
    BY DEF OInv, SignedInKept, SignedInUsed
  <1> QED BY <1>1, OneShotSafety, PTL
=============================================================================
