--------------------------- MODULE StartupProofs ---------------------------
(***************************************************************************)
(* Proofs about Startup, for every set of options and command lines of any *)
(* length: with which privileges, in which directory and on which          *)
(* interfaces althttpd serves.                                             *)
(***************************************************************************)
EXTENDS Startup, TLAPS

\* Where main() reads options, or has not come to the jail yet.
BeforeUser == {"args", "defaults", "tls", "chdir", "user"}
BeforeJail == BeforeUser \cup {"jail"}
BeforeServer == BeforeJail \cup {"server"}

\* The identity of the process is the one it was launched with until setgid()
\* and setuid() change it, and both only to a user that was found.
IdentityInv ==
  /\ pc \in BeforeServer \cup {"setgid"} => uid = launchedBy /\ gid = launchedBy
  /\ pc = "jail" => uid # "root" \/ zPermUser # "null"
  /\ pc \notin BeforeUser \cup {"exit"} => (pwd <=> zPermUser \in Users)
  /\ pc = "setuid" => gid = zPermUser
  /\ pc \in {"check", "serve"} /\ zPermUser # "null" =>
       uid = zPermUser /\ gid = zPermUser
  /\ pc = "serve" => uid # "root"

\* The process is in the jail from "server" on, unless it was told not to be.
JailInv ==
  /\ zRoot = "" <=> jailed
  /\ pc \in BeforeJail => ~jailed
  /\ ~useChrootJail => "jail0" \in given
  /\ pc \notin BeforeJail \cup {"exit"} /\ launchedBy = "root"
       /\ "jail0" \notin given => jailed

\* What the options have set so far, and what the defaults add.
ListenInv ==
  /\ ports = "empty" => "badport" \in given
  /\ standalone # 0 /\ "badport" \notin given => ports = "range"
  /\ zRoot # "null" /\ pc \in {"args", "defaults"} =>
       given \cap {"root", "popup"} # {}
  /\ pc \notin {"args", "defaults", "exit"} /\ ~bLocalhost =>
       given \cap {"root", "popup"} # {}
  /\ pc \in BeforeServer => ~listened
  /\ listened /\ ~bLocalhost => given \cap {"root", "popup"} # {}
  /\ pc \notin BeforeServer \cup {"exit"} => (listened <=> ports = "range")

Inv == TypeOK /\ IdentityInv /\ JailInv /\ ListenInv

-----------------------------------------------------------------------------
(* Every step keeps each part of the invariant. *)

\* Where main() is.
LEMMA ProgressStep == ProgressOK /\ [Next]_vars => ProgressOK'
<1> SUFFICES ASSUME ProgressOK, [Next]_vars PROVE ProgressOK' OBVIOUS
<1> USE StartupAssumption
    DEF ProgressOK, flags, process
<1>1. CASE Root BY <1>1 DEF Root, Read
<1>2. CASE User BY <1>2 DEF User, Read
<1>3. CASE Jail0 BY <1>3 DEF Jail0, Read
<1>4. CASE Port BY <1>4 DEF Port, Read, Standalone
<1>5. CASE Page BY <1>5 DEF Page, Read, Standalone, DefaultPorts
<1>6. CASE Popup BY <1>6 DEF Popup, Read, Standalone, DefaultPorts
<1>7. CASE Loopback BY <1>7 DEF Loopback, Read
<1>8. CASE Https BY <1>8 DEF Https, Read
<1>8c. CASE Cert BY <1>8c DEF Cert, Read
<1>9. CASE Debug BY <1>9 DEF Debug, Read
<1>10. CASE Other BY <1>10 DEF Other, Read
<1>11. CASE EnableSab BY <1>11 DEF EnableSab, Read
<1>12. CASE LeaveArgs BY <1>12 DEF LeaveArgs, Read
<1>12u. CASE UnknownArg BY <1>12u DEF UnknownArg, Read
<1>13. CASE EndArgs BY <1>13 DEF EndArgs
<1>14. CASE Defaults BY <1>14 DEF Defaults
<1>15. CASE ReadCert BY <1>15 DEF ReadCert
<1>16. CASE EnterRoot BY <1>16 DEF EnterRoot
<1>17. CASE LookUpUser BY <1>17 DEF LookUpUser
<1>18. CASE EnterJail BY <1>18 DEF EnterJail
<1>19. CASE Server BY <1>19 DEF Server
<1>20. CASE SetGid BY <1>20 DEF SetGid
<1>21. CASE SetUid BY <1>21 DEF SetUid
<1>22. CASE CheckRoot BY <1>22 DEF CheckRoot
<1>23. CASE Fails BY <1>23 DEF Fails
<1>24. CASE UNCHANGED vars BY <1>24 DEF vars
<1>25. QED
  BY <1>1, <1>2, <1>3, <1>4, <1>5, <1>6, <1>7, <1>8, <1>8c, <1>9, <1>10, <1>11,
     <1>12, <1>12u, <1>13, <1>14, <1>15, <1>16, <1>17, <1>18, <1>19, <1>20, <1>21,
     <1>22, <1>23, <1>24 DEF Next, Arguments, Steps, Done

\* What the options set.
LEMMA FlagsStep == FlagsOK /\ [Next]_vars => FlagsOK'
<1> SUFFICES ASSUME FlagsOK, [Next]_vars PROVE FlagsOK' OBVIOUS
<1> USE StartupAssumption
    DEF FlagsOK, flags, process
<1>1. CASE Root BY <1>1 DEF Root, Read
<1>2. CASE User BY <1>2 DEF User, Read
<1>3. CASE Jail0 BY <1>3 DEF Jail0, Read
<1>4. CASE Port BY <1>4 DEF Port, Read, Standalone
<1>5. CASE Page BY <1>5 DEF Page, Read, Standalone, DefaultPorts
<1>6. CASE Popup BY <1>6 DEF Popup, Read, Standalone, DefaultPorts
<1>7. CASE Loopback BY <1>7 DEF Loopback, Read
<1>8. CASE Https BY <1>8 DEF Https, Read
<1>8c. CASE Cert BY <1>8c DEF Cert, Read
<1>9. CASE Debug BY <1>9 DEF Debug, Read
<1>10. CASE Other BY <1>10 DEF Other, Read
<1>11. CASE EnableSab BY <1>11 DEF EnableSab, Read
<1>12. CASE LeaveArgs BY <1>12 DEF LeaveArgs, Read
<1>12u. CASE UnknownArg BY <1>12u DEF UnknownArg, Read
<1>13. CASE EndArgs BY <1>13 DEF EndArgs
<1>14. CASE Defaults BY <1>14 DEF Defaults
<1>15. CASE ReadCert BY <1>15 DEF ReadCert
<1>16. CASE EnterRoot BY <1>16 DEF EnterRoot
<1>17. CASE LookUpUser BY <1>17 DEF LookUpUser
<1>18. CASE EnterJail BY <1>18 DEF EnterJail
<1>19. CASE Server BY <1>19 DEF Server
<1>20. CASE SetGid BY <1>20 DEF SetGid
<1>21. CASE SetUid BY <1>21 DEF SetUid
<1>22. CASE CheckRoot BY <1>22 DEF CheckRoot
<1>23. CASE Fails BY <1>23 DEF Fails
<1>24. CASE UNCHANGED vars BY <1>24 DEF vars
<1>25. QED
  BY <1>1, <1>2, <1>3, <1>4, <1>5, <1>6, <1>7, <1>8, <1>8c, <1>9, <1>10, <1>11,
     <1>12, <1>12u, <1>13, <1>14, <1>15, <1>16, <1>17, <1>18, <1>19, <1>20, <1>21,
     <1>22, <1>23, <1>24 DEF Next, Arguments, Steps, Done

\* The process; setgid() and setuid() are for a user who was found.
LEMMA ProcessStep == FlagsOK /\ ProcessOK /\ IdentityInv /\ [Next]_vars => ProcessOK'
<1> SUFFICES ASSUME FlagsOK, ProcessOK, IdentityInv, [Next]_vars PROVE ProcessOK' OBVIOUS
<1> USE StartupAssumption
    DEF FlagsOK, ProcessOK, IdentityInv, Users, BeforeUser, BeforeJail, BeforeServer, flags, process
<1>1. CASE Root BY <1>1 DEF Root, Read
<1>2. CASE User BY <1>2 DEF User, Read
<1>3. CASE Jail0 BY <1>3 DEF Jail0, Read
<1>4. CASE Port BY <1>4 DEF Port, Read, Standalone
<1>5. CASE Page BY <1>5 DEF Page, Read, Standalone, DefaultPorts
<1>6. CASE Popup BY <1>6 DEF Popup, Read, Standalone, DefaultPorts
<1>7. CASE Loopback BY <1>7 DEF Loopback, Read
<1>8. CASE Https BY <1>8 DEF Https, Read
<1>8c. CASE Cert BY <1>8c DEF Cert, Read
<1>9. CASE Debug BY <1>9 DEF Debug, Read
<1>10. CASE Other BY <1>10 DEF Other, Read
<1>11. CASE EnableSab BY <1>11 DEF EnableSab, Read
<1>12. CASE LeaveArgs BY <1>12 DEF LeaveArgs, Read
<1>12u. CASE UnknownArg BY <1>12u DEF UnknownArg, Read
<1>13. CASE EndArgs BY <1>13 DEF EndArgs
<1>14. CASE Defaults BY <1>14 DEF Defaults
<1>15. CASE ReadCert BY <1>15 DEF ReadCert
<1>16. CASE EnterRoot BY <1>16 DEF EnterRoot
<1>17. CASE LookUpUser BY <1>17 DEF LookUpUser
<1>18. CASE EnterJail BY <1>18 DEF EnterJail
<1>19. CASE Server BY <1>19 DEF Server
<1>20. CASE SetGid BY <1>20 DEF SetGid
<1>21. CASE SetUid BY <1>21 DEF SetUid
<1>22. CASE CheckRoot BY <1>22 DEF CheckRoot
<1>23. CASE Fails BY <1>23 DEF Fails
<1>24. CASE UNCHANGED vars BY <1>24 DEF vars
<1>25. QED
  BY <1>1, <1>2, <1>3, <1>4, <1>5, <1>6, <1>7, <1>8, <1>8c, <1>9, <1>10, <1>11,
     <1>12, <1>12u, <1>13, <1>14, <1>15, <1>16, <1>17, <1>18, <1>19, <1>20, <1>21,
     <1>22, <1>23, <1>24 DEF Next, Arguments, Steps, Done

\* The identity.
LEMMA IdentityStep == ProgressOK /\ FlagsOK /\ ProcessOK /\ IdentityInv /\ [Next]_vars => IdentityInv'
<1> SUFFICES ASSUME ProgressOK, FlagsOK, ProcessOK, IdentityInv, [Next]_vars PROVE IdentityInv' OBVIOUS
<1> USE StartupAssumption
    DEF ProgressOK, FlagsOK, ProcessOK, IdentityInv, Users, BeforeUser, BeforeJail, BeforeServer, flags,
        process
<1>1. CASE Root BY <1>1 DEF Root, Read
<1>2. CASE User BY <1>2 DEF User, Read
<1>3. CASE Jail0 BY <1>3 DEF Jail0, Read
<1>4. CASE Port BY <1>4 DEF Port, Read, Standalone
<1>5. CASE Page BY <1>5 DEF Page, Read, Standalone, DefaultPorts
<1>6. CASE Popup BY <1>6 DEF Popup, Read, Standalone, DefaultPorts
<1>7. CASE Loopback BY <1>7 DEF Loopback, Read
<1>8. CASE Https BY <1>8 DEF Https, Read
<1>8c. CASE Cert BY <1>8c DEF Cert, Read
<1>9. CASE Debug BY <1>9 DEF Debug, Read
<1>10. CASE Other BY <1>10 DEF Other, Read
<1>11. CASE EnableSab BY <1>11 DEF EnableSab, Read
<1>12. CASE LeaveArgs BY <1>12 DEF LeaveArgs, Read
<1>12u. CASE UnknownArg BY <1>12u DEF UnknownArg, Read
<1>13. CASE EndArgs BY <1>13 DEF EndArgs
<1>14. CASE Defaults BY <1>14 DEF Defaults
<1>15. CASE ReadCert BY <1>15 DEF ReadCert
<1>16. CASE EnterRoot BY <1>16 DEF EnterRoot
<1>17. CASE LookUpUser BY <1>17 DEF LookUpUser
<1>18. CASE EnterJail BY <1>18 DEF EnterJail
<1>19. CASE Server BY <1>19 DEF Server
<1>20. CASE SetGid BY <1>20 DEF SetGid
<1>21. CASE SetUid BY <1>21 DEF SetUid
<1>22. CASE CheckRoot BY <1>22 DEF CheckRoot
<1>23. CASE Fails BY <1>23 DEF Fails
<1>24. CASE UNCHANGED vars BY <1>24 DEF vars
<1>25. QED
  BY <1>1, <1>2, <1>3, <1>4, <1>5, <1>6, <1>7, <1>8, <1>8c, <1>9, <1>10, <1>11,
     <1>12, <1>12u, <1>13, <1>14, <1>15, <1>16, <1>17, <1>18, <1>19, <1>20, <1>21,
     <1>22, <1>23, <1>24 DEF Next, Arguments, Steps, Done

\* The jail.
LEMMA JailStep ==
  ProgressOK /\ FlagsOK /\ ProcessOK /\ IdentityInv /\ JailInv /\ [Next]_vars => JailInv'
<1> SUFFICES ASSUME ProgressOK, FlagsOK, ProcessOK, IdentityInv, JailInv,
                    [Next]_vars
             PROVE  JailInv' OBVIOUS
<1> USE StartupAssumption
    DEF ProgressOK, FlagsOK, ProcessOK, IdentityInv, JailInv,
        Users, BeforeUser, BeforeJail, BeforeServer, flags, process
<1>1. CASE Root BY <1>1 DEF Root, Read
<1>2. CASE User BY <1>2 DEF User, Read
<1>3. CASE Jail0 BY <1>3 DEF Jail0, Read
<1>4. CASE Port BY <1>4 DEF Port, Read, Standalone
<1>5. CASE Page BY <1>5 DEF Page, Read, Standalone, DefaultPorts
<1>6. CASE Popup BY <1>6 DEF Popup, Read, Standalone, DefaultPorts
<1>7. CASE Loopback BY <1>7 DEF Loopback, Read
<1>8. CASE Https BY <1>8 DEF Https, Read
<1>8c. CASE Cert BY <1>8c DEF Cert, Read
<1>9. CASE Debug BY <1>9 DEF Debug, Read
<1>10. CASE Other BY <1>10 DEF Other, Read
<1>11. CASE EnableSab BY <1>11 DEF EnableSab, Read
<1>12. CASE LeaveArgs BY <1>12 DEF LeaveArgs, Read
<1>12u. CASE UnknownArg BY <1>12u DEF UnknownArg, Read
<1>13. CASE EndArgs BY <1>13 DEF EndArgs
<1>14. CASE Defaults BY <1>14 DEF Defaults
<1>15. CASE ReadCert BY <1>15 DEF ReadCert
<1>16. CASE EnterRoot BY <1>16 DEF EnterRoot
<1>17. CASE LookUpUser BY <1>17 DEF LookUpUser
<1>18. CASE EnterJail BY <1>18 DEF EnterJail
<1>19. CASE Server BY <1>19 DEF Server
<1>20. CASE SetGid BY <1>20 DEF SetGid
<1>21. CASE SetUid BY <1>21 DEF SetUid
<1>22. CASE CheckRoot BY <1>22 DEF CheckRoot
<1>23. CASE Fails BY <1>23 DEF Fails
<1>24. CASE UNCHANGED vars BY <1>24 DEF vars
<1>25. QED
  BY <1>1, <1>2, <1>3, <1>4, <1>5, <1>6, <1>7, <1>8, <1>8c, <1>9, <1>10, <1>11,
     <1>12, <1>12u, <1>13, <1>14, <1>15, <1>16, <1>17, <1>18, <1>19, <1>20, <1>21,
     <1>22, <1>23, <1>24 DEF Next, Arguments, Steps, Done

\* The ports and the interfaces.
LEMMA ListenStep == FlagsOK /\ ListenInv /\ [Next]_vars => ListenInv'
<1> SUFFICES ASSUME FlagsOK, ListenInv, [Next]_vars PROVE ListenInv' OBVIOUS
<1> USE StartupAssumption
    DEF FlagsOK, ListenInv, BeforeUser, BeforeJail, BeforeServer, flags, process
<1>1. CASE Root BY <1>1 DEF Root, Read
<1>2. CASE User BY <1>2 DEF User, Read
<1>3. CASE Jail0 BY <1>3 DEF Jail0, Read
<1>4. CASE Port BY <1>4 DEF Port, Read, Standalone
<1>5. CASE Page BY <1>5 DEF Page, Read, Standalone, DefaultPorts
<1>6. CASE Popup BY <1>6 DEF Popup, Read, Standalone, DefaultPorts
<1>7. CASE Loopback BY <1>7 DEF Loopback, Read
<1>8. CASE Https BY <1>8 DEF Https, Read
<1>8c. CASE Cert BY <1>8c DEF Cert, Read
<1>9. CASE Debug BY <1>9 DEF Debug, Read
<1>10. CASE Other BY <1>10 DEF Other, Read
<1>11. CASE EnableSab BY <1>11 DEF EnableSab, Read
<1>12. CASE LeaveArgs BY <1>12 DEF LeaveArgs, Read
<1>12u. CASE UnknownArg BY <1>12u DEF UnknownArg, Read
<1>13. CASE EndArgs BY <1>13 DEF EndArgs
<1>14. CASE Defaults BY <1>14 DEF Defaults
<1>15. CASE ReadCert BY <1>15 DEF ReadCert
<1>16. CASE EnterRoot BY <1>16 DEF EnterRoot
<1>17. CASE LookUpUser BY <1>17 DEF LookUpUser
<1>18. CASE EnterJail BY <1>18 DEF EnterJail
<1>19. CASE Server BY <1>19 DEF Server
<1>20. CASE SetGid BY <1>20 DEF SetGid
<1>21. CASE SetUid BY <1>21 DEF SetUid
<1>22. CASE CheckRoot BY <1>22 DEF CheckRoot
<1>23. CASE Fails BY <1>23 DEF Fails
<1>24. CASE UNCHANGED vars BY <1>24 DEF vars
<1>25. QED
  BY <1>1, <1>2, <1>3, <1>4, <1>5, <1>6, <1>7, <1>8, <1>8c, <1>9, <1>10, <1>11,
     <1>12, <1>12u, <1>13, <1>14, <1>15, <1>16, <1>17, <1>18, <1>19, <1>20, <1>21,
     <1>22, <1>23, <1>24 DEF Next, Arguments, Steps, Done

LEMMA InvInductive == Spec => []Inv
<1>1. Init => Inv
  <2> SUFFICES ASSUME Init PROVE Inv OBVIOUS
  <2> USE StartupAssumption DEF Init, flags, process
  <2>1. ProgressOK BY DEF ProgressOK
  <2>2. FlagsOK BY DEF FlagsOK
  <2>3. ProcessOK BY DEF ProcessOK, Users
  <2>4. IdentityInv
    BY DEF IdentityInv, Users, BeforeUser, BeforeJail, BeforeServer
  <2>5. JailInv BY DEF JailInv, BeforeUser, BeforeJail
  <2>6. ListenInv BY DEF ListenInv, BeforeUser, BeforeJail, BeforeServer
  <2>7. QED BY <2>1, <2>2, <2>3, <2>4, <2>5, <2>6 DEF Inv, TypeOK
<1>2. Inv /\ [Next]_vars => Inv'
  BY ProgressStep, FlagsStep, ProcessStep, IdentityStep, JailStep, ListenStep
     DEF Inv, TypeOK
<1>3. QED
  BY <1>1, <1>2, PTL DEF Spec

-----------------------------------------------------------------------------
(* The results. *)

\* Every variable stays in its range, for any command line.
THEOREM TypeCorrect == Spec => []TypeOK
<1>1. Inv => TypeOK BY DEF Inv
<1>2. QED BY <1>1, InvInductive, PTL

\* No request is processed as root, and with --user each is processed under
\* that user and its group.
THEOREM DropsPrivileges == Spec => []NeverServesAsRoot
<1>1. Inv => NeverServesAsRoot BY DEF Inv, IdentityInv, NeverServesAsRoot
<1>2. QED BY <1>1, InvInductive, PTL

\* A process launched as root serves from inside the jail unless --jail 0 is
\* given, and its root directory is named as seen from where it is.
THEOREM Jailed == Spec => []ServesFromJail
<1>1. Inv => ServesFromJail
  BY DEF Inv, JailInv, ServesFromJail, BeforeJail, BeforeUser
<1>2. QED BY <1>1, InvInductive, PTL

\* In standalone mode with usable ports the process listens.
THEOREM Listens == Spec => []StandaloneListens
<1>1. Inv => StandaloneListens
  BY DEF Inv, ListenInv, StandaloneListens, BeforeServer, BeforeJail, BeforeUser
<1>2. QED BY <1>1, InvInductive, PTL

\* Without --root and --popup only the loop-back device is served.
THEOREM LoopbackUnlessAsked == Spec => []LoopbackByDefault
<1>1. Inv => LoopbackByDefault BY DEF Inv, ListenInv, LoopbackByDefault
<1>2. QED BY <1>1, InvInductive, PTL
=============================================================================
