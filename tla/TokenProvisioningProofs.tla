------------------------ MODULE TokenProvisioningProofs ------------------------
(***************************************************************************)
(* Proofs about TokenProvisioning, for every bound and whoever rotates:    *)
(* its type, that an upgrade keeps the token, that the server an           *)
(* installation started accepts the token in the file, and that nothing an *)
(* installation leaves refuses the service a start.                        *)
(***************************************************************************)
EXTENDS TokenProvisioning, TLAPS

\* Only a token is renamed over the file.
Generated == \A p \in Programs : pc[p] = "rename" => token[p] \in Tokens

\* The installer generates a token only if it found none, and a token that it
\* has not looked at yet stays one.
Looked ==
  /\ pc["install"] \in {"write", "load"} /\ hadToken => file.value \in Tokens
  /\ pc["install"] \in {"temp", "rename"} => ~hadToken

\* After the configuration was looked at, it asks for a token.
Configured == pc["install"] # "off" => config # "open"

\* Only a listening server accepts anything.
Listening == accepts # NoToken => pc["serve"] = "listen"

Quiet == rotations = 0 => pc["rotate"] = "off"

\* After an installation only the service writes the file.
Installed ==
  pc["install"] = "done" /\ rotations = 0 =>
    /\ pc["serve"] = "chmod" => NotExist \/ token["serve"] = file.value
    /\ accepts # NoToken => NotExist \/ accepts = file.value

Inv == TypeOK /\ Generated /\ Looked /\ Configured /\ Listening /\ Quiet /\ Installed

-------------------------------------------------------------------------------
\* The file that is not there.
LEMMA NoFileType == NoFile \in File
  BY DEF File, NoFile, Users

LEMMA InitInv == Init => Inv
<1> SUFFICES ASSUME Init PROVE Inv
    OBVIOUS
<1> USE DEF Init
<1>1. TypeOK
  <2>1. /\ 0 \in 0..MaxInstalls /\ 0 \in 0..MaxRotations /\ 0 \in 0..MaxEvents
    BY ConstantsAssumption
  <2> QED
    BY <2>1, NoFileType DEF TypeOK, Places, Configurations
<1>2. Generated /\ Looked /\ Configured /\ Listening /\ Quiet /\ Installed
  BY DEF Generated, Looked, Configured, Listening, Quiet, Installed, Programs
<1> QED
  BY <1>1, <1>2 DEF Inv

\* Every program runs as a user.
LEMMA UserType == \A p \in Programs : UserOf(p) \in Users
  BY ConstantsAssumption DEF Programs, UserOf, Users

\* The place a program goes on at is a place.
LEMMA PlaceType ==
  ASSUME pc \in [Programs -> Places], NEW p \in Programs, NEW place \in Places, Goto(p, place)
  PROVE  /\ pc' \in [Programs -> Places]
         /\ pc'[p] = place /\ \A q \in Programs \ {p} : pc'[q] = pc[q]
  BY DEF Goto

\* A program forgets its token, and no other does.
LEMMA ForgetsType ==
  ASSUME token \in [Programs -> Tokens \cup {NoToken}], NEW p \in Programs
  PROVE  /\ Forgets(p) \in [Programs -> Tokens \cup {NoToken}]
         /\ \A q \in Programs \ {p} : Forgets(p)[q] = token[q]
  BY DEF Forgets

\* writeProtected keeps the types, and its programs apart.
LEMMA WritingType ==
  ASSUME TypeOK, NEW p \in Programs, Writing(p)
  PROVE  TypeOK'
<1>1. CASE WriteTemp(p)
  <2>1. Generate \subseteq Tokens
    BY DEF Generate, Unused
  <2> QED
    BY <1>1, <2>1 DEF TypeOK, WriteTemp, Goto, Places, setup, systemd, count, history
<1>2. CASE Rename(p)
  BY <1>2, UserType DEF TypeOK, Rename, Goto, Places, File, setup, systemd, count, history
<1>3. CASE Chmod(p)
  <2>1. AfterWrite(p) \in Places /\ AfterError(p) \in Places
    BY DEF AfterWrite, AfterError, Programs, Places
  <2> QED
    BY <1>3, <2>1, ForgetsType DEF TypeOK, Chmod, Goto, setup, systemd, count, history
<1> QED
  BY <1>1, <1>2, <1>3 DEF Writing

\* Every step keeps the types.
LEMMA StepType == TypeOK /\ [Next]_vars => TypeOK'
<1> SUFFICES ASSUME TypeOK, [Next]_vars
             PROVE  TypeOK'
    OBVIOUS
<1>0. {"serve", "install", "rotate"} = Programs
  BY DEF Programs
<1>1. CASE Serve
  <2>1. Loads("serve") => file.value \in Tokens
    BY DEF TypeOK, setup, Loads, Permitted, NotExist, File
  <2> QED
    BY <1>0, <1>1, <2>1 DEF TypeOK, setup, Serve, StartServe, ServeOpens, ServeLoads, ServeCreates, ServeFails, Goto,
                       Places, systemd, count, history
<1>2. CASE Install
  <2>1. CASE InstallShows
    BY <1>0, <2>1 DEF TypeOK, setup, InstallShows, Goto, Places, systemd, count, history
  <2>2. CASE InstallChowns
    <3>1. file' \in File
      BY <2>2 DEF TypeOK, setup, InstallChowns, File, Users
    <3>2. pc' \in [Programs -> Places]
      BY <1>0, <2>2 DEF TypeOK, setup, InstallChowns, Goto, Places
    <3> QED
      BY <2>2, <3>1, <3>2 DEF TypeOK, setup, InstallChowns, systemd, count, history
  <2>3. CASE InstallRestarts
    BY <1>0, <2>3, ForgetsType DEF TypeOK, setup, InstallRestarts, Places, count, history
  <2>4. CASE InstallEnables
    BY <1>0, <2>4 DEF TypeOK, setup, InstallEnables, Goto, Places, count, history
  <2>5. CASE InstallWritesConfig
    BY <1>0, <2>5 DEF TypeOK, InstallWritesConfig, Goto, Places, Configurations, systemd, count,
                      history
  <2> QED
    BY <1>2, <2>1, <2>2, <2>3, <2>4, <2>5 DEF Install
<1>3. CASE BeginInstall
  <2>1. hadToken' \in BOOLEAN
    BY <1>3 DEF BeginInstall
  <2>2. installs' \in 0..MaxInstalls
    BY <1>3, ConstantsAssumption DEF TypeOK, setup, BeginInstall
  <2> QED
    BY <1>0, <1>3, <2>1, <2>2 DEF TypeOK, setup, BeginInstall, Configures, Configurations,
                                     Goto, Places, systemd
<1>4. CASE BeginRotate
  <2>1. rotations' \in 0..MaxRotations
    BY <1>4, ConstantsAssumption DEF TypeOK, setup, BeginRotate
  <2> QED
    BY <1>0, <1>4, <2>1 DEF TypeOK, setup, BeginRotate, Goto, Places, systemd, history
<1>5. CASE PrintRotated
  BY <1>0, <1>5, ForgetsType DEF TypeOK, setup, PrintRotated, Goto, Places, systemd, count
<1>6. CASE Remove \/ Uninstall
  <2>1. events' \in 0..MaxEvents
    BY <1>6, ConstantsAssumption DEF TypeOK, setup, Remove, Uninstall
  <2>2. CASE Remove
    BY <2>1, <2>2, NoFileType DEF TypeOK, setup, Remove, systemd
  <2>3. CASE Uninstall
    BY <1>0, <2>1, <2>3, ForgetsType DEF TypeOK, setup, Uninstall, Places, history
  <2> QED
    BY <1>6, <2>2, <2>3
<1>7. CASE Writeback
  BY <1>7 DEF TypeOK, setup, Writeback, systemd, count, history
<1>8. CASE PowerLoss
  <2>1. events' \in 0..MaxEvents
    BY <1>8, ConstantsAssumption DEF TypeOK, setup, PowerLoss
  <2>2. Emptied \in File
    BY DEF TypeOK, setup, Emptied, File
  <2>3. pc' \in [Programs -> Places]
    BY <1>8 DEF PowerLoss, Places
  <2> QED
    BY <1>8, <2>1, <2>2, <2>3 DEF TypeOK, setup, PowerLoss, Configurations, history
<1>9. ASSUME NEW p \in Programs, Kill(p) PROVE TypeOK'
  <2>1. events' \in 0..MaxEvents
    BY <1>9, ConstantsAssumption DEF TypeOK, setup, Kill
  <2> QED
    BY <1>9, <2>1, ForgetsType DEF TypeOK, setup, Kill, Goto, Places, systemd, history
<1>10. CASE UNCHANGED vars
  BY <1>10 DEF TypeOK, setup, vars, systemd, count, history
<1>11. CASE Terminate
  <2>1. events' \in 0..MaxEvents
    BY <1>11, ConstantsAssumption DEF TypeOK, Terminate
  <2> QED
    BY <1>0, <1>11, <2>1, ForgetsType DEF TypeOK, setup, Terminate, Goto, Places
<1> QED
  BY <1>1, <1>2, <1>3, <1>4, <1>5, <1>6, <1>7, <1>8, <1>9, <1>10, <1>11, WritingType DEF Next

\* A step of one program leaves the others where they are.
LEMMA Apart ==
  ASSUME TypeOK, NEW p \in Programs, NEW place, Goto(p, place)
  PROVE  pc'[p] = place /\ \A q \in Programs \ {p} : pc'[q] = pc[q]
  BY DEF TypeOK, Goto

\* Writing keeps the rest of the invariant.
LEMMA WritingInv ==
  ASSUME Inv, NEW p \in Programs, Writing(p)
  PROVE  Generated' /\ Looked' /\ Configured' /\ Listening' /\ Quiet' /\ Installed'
<1>0. /\ token \in [Programs -> Tokens \cup {NoToken}]
      /\ "serve" \in Programs /\ "install" \in Programs /\ "rotate" \in Programs
  BY DEF Inv, TypeOK, Programs
<1>1. CASE WriteTemp(p)
  <2>1. pc'[p] = "rename" /\ \A q \in Programs \ {p} : pc'[q] = pc[q]
    BY <1>1, Apart DEF Inv, WriteTemp
  <2>2. token'[p] \in Tokens /\ \A q \in Programs \ {p} : token'[q] = token[q]
    <3>1. PICK t \in Generate : token' = [token EXCEPT ![p] = t]
      BY <1>1 DEF WriteTemp
    <3>2. t \in Tokens
      BY <3>1 DEF Generate, Unused
    <3> QED
      BY <1>0, <3>1, <3>2
  <2>3. UNCHANGED <<file, config, accepts, rotations, hadToken>> /\ pc[p] = "temp"
    BY <1>1 DEF WriteTemp, setup, count, history
  <2> QED
    BY <1>0, <2>1, <2>2, <2>3
       DEF Inv, Generated, Looked, Configured, Listening, Quiet, Installed, NotExist
<1>2. CASE Rename(p)
  <2>1. pc'[p] = "chmod" /\ \A q \in Programs \ {p} : pc'[q] = pc[q]
    BY <1>2, Apart DEF Inv, Rename
  <2>2. UNCHANGED <<token, config, accepts, rotations, hadToken>> /\ pc[p] = "rename"
    BY <1>2 DEF Rename, setup, count, history
  <2>3. file'.value = token[p] /\ token[p] \in Tokens
    BY <1>2 DEF Rename, Inv, Generated
  <2>4. Generated' /\ Looked' /\ Configured' /\ Listening' /\ Quiet'
    BY <1>0, <2>1, <2>2, <2>3 DEF Inv, Generated, Looked, Configured, Listening, Quiet
  <2>5. Installed'
    <3>1. p = "serve" \/ p = "install" \/ p = "rotate"
      BY DEF Programs
    <3> QED
      BY <1>0, <2>1, <2>2, <2>3, <3>1 DEF Inv, Listening, Quiet, Installed
  <2> QED
    BY <2>4, <2>5
<1>3. CASE Chmod(p)
  <2>1. /\ pc'[p] \in {"listen", "chown", "print", "off"} /\ \A q \in Programs \ {p} : pc'[q] = pc[q]
        /\ p = "serve" /\ accepts' # accepts => pc'["serve"] = "listen"
    <3>1. AfterWrite(p) \in {"listen", "chown", "print"} /\ AfterWrite("serve") = "listen"
      BY DEF AfterWrite, Programs
    <3>2. Goto(p, IF Permitted(p) THEN AfterWrite(p) ELSE "off")
      BY <1>3 DEF Chmod, AfterError
    <3>3. /\ pc'[p] = (IF Permitted(p) THEN AfterWrite(p) ELSE "off")
          /\ \A q \in Programs \ {p} : pc'[q] = pc[q]
      BY <3>2, Apart DEF Inv
    <3> QED
      BY <1>3, <3>1, <3>3 DEF Chmod
  <2>2. /\ UNCHANGED <<file, config, rotations, hadToken>> /\ pc[p] = "chmod"
        /\ \A q \in Programs \ {p} : token'[q] = token[q]
        /\ p # "serve" => accepts' = accepts
        /\ accepts' \in {accepts, token["serve"]}
    BY <1>0, <1>3, ForgetsType DEF Chmod, setup, count, history
  <2>3. Generated' /\ Looked' /\ Configured' /\ Quiet'
    BY <1>0, <2>1, <2>2 DEF Inv, Generated, Looked, Configured, Quiet
  <2>4. Listening'
    BY <1>0, <2>1, <2>2 DEF Inv, Listening
  <2>5. Installed'
    BY <1>0, <2>1, <2>2 DEF Inv, Listening, Installed, NotExist
  <2> QED
    BY <2>3, <2>4, <2>5
<1> QED
  BY <1>1, <1>2, <1>3 DEF Writing

\* So do the steps of the installer, which looks before it generates, and starts
\* a service that accepts nothing yet.
LEMMA InstallInv ==
  ASSUME Inv, Install \/ BeginInstall
  PROVE  Generated' /\ Looked' /\ Configured' /\ Listening' /\ Quiet' /\ Installed'
<1>0. /\ "serve" \in Programs /\ "install" \in Programs /\ "rotate" \in Programs
      /\ pc \in [Programs -> Places] /\ file \in File
      /\ token \in [Programs -> Tokens \cup {NoToken}]
  BY DEF Inv, TypeOK, Programs
<1> USE DEF Inv, Generated, Looked, Configured, Listening, Quiet, Installed
<1>1. CASE InstallShows
  <2>1. ~Loads("install") => file.value \notin Tokens
    BY ConstantsAssumption DEF Loads, Permitted, NotExist, UserOf, Tokens, NoToken, Empty
  <2> QED
    BY <1>0, <1>1, <2>1 DEF InstallShows, setup, Goto, NotExist, count, history
<1>2. CASE InstallChowns
  <2>1. file'.value = file.value
    BY <1>0, <1>2 DEF InstallChowns, File
  <2> QED
    BY <1>0, <1>2, <2>1 DEF InstallChowns, setup, Goto, NotExist, count, history
<1>3. CASE InstallRestarts
  BY <1>0, <1>3, ForgetsType DEF InstallRestarts, setup, count, history
<1>4. CASE InstallEnables
  BY <1>0, <1>4 DEF InstallEnables, setup, Goto, count, history
<1>5. CASE BeginInstall
  BY <1>0, <1>5 DEF BeginInstall, Configures, Goto, File
<1>6. CASE InstallWritesConfig
  BY <1>0, <1>6 DEF InstallWritesConfig, Goto, NotExist, count, history
<1> QED
  BY <1>1, <1>2, <1>3, <1>4, <1>5, <1>6 DEF Install

\* So do all the other steps.
LEMMA OtherInv ==
  ASSUME Inv, \/ Serve \/ BeginRotate \/ PrintRotated \/ Remove \/ Uninstall \/ Terminate
              \/ Writeback \/ PowerLoss \/ (\E p \in Programs : Kill(p)) \/ UNCHANGED vars
  PROVE  Generated' /\ Looked' /\ Configured' /\ Listening' /\ Quiet' /\ Installed'
<1>0. /\ "serve" \in Programs /\ "install" \in Programs /\ "rotate" \in Programs
      /\ pc \in [Programs -> Places] /\ token \in [Programs -> Tokens \cup {NoToken}]
      /\ file \in File /\ rotations \in Nat
  BY DEF Inv, TypeOK, Programs
<1> USE DEF Inv, Generated, Looked, Configured, Listening, Quiet, Installed
<1>1. CASE Serve
  BY <1>0, <1>1 DEF Serve, StartServe, ServeOpens, ServeLoads, ServeCreates, ServeFails, Goto,
                    NotExist, setup, count, history
<1>2. CASE BeginRotate
  BY <1>0, <1>2 DEF BeginRotate, setup, Goto, history
<1>3. CASE PrintRotated
  BY <1>0, <1>3, ForgetsType DEF PrintRotated, setup, Goto, NotExist, count
<1>4. CASE Remove
  BY <1>0, <1>4 DEF Remove, setup, NotExist, NoFile
<1>5. CASE Uninstall
  BY <1>0, <1>5, ForgetsType DEF Uninstall, setup, history
<1>6. CASE Writeback
  BY <1>0, <1>6 DEF Writeback, NotExist, count, history
<1>7. CASE PowerLoss
  BY <1>0, <1>7 DEF PowerLoss, history
<1>8. ASSUME NEW p \in Programs, Kill(p)
      PROVE  Generated' /\ Looked' /\ Configured' /\ Listening' /\ Quiet' /\ Installed'
  <2>1. pc'[p] = "off" /\ \A q \in Programs \ {p} : pc'[q] = pc[q]
    BY <1>0, <1>8 DEF Kill, Goto
  <2>2. /\ UNCHANGED <<file, config, rotations, hadToken>>
        /\ \A q \in Programs \ {p} : token'[q] = token[q]
        /\ accepts' = IF p = "serve" THEN NoToken ELSE accepts
    BY <1>0, <1>8, ForgetsType DEF Kill, setup, history
  <2> QED
    BY <1>0, <2>1, <2>2 DEF NotExist
<1>9. CASE UNCHANGED vars
  BY <1>0, <1>9 DEF vars, setup, NotExist, count, history
<1>10. CASE Terminate
  <2>1. pc'["serve"] = "off" /\ \A q \in Programs \ {"serve"} : pc'[q] = pc[q]
    BY <1>0, <1>10 DEF Terminate, Goto
  <2>2. /\ UNCHANGED <<file, config, rotations, hadToken>> /\ accepts' = NoToken
        /\ \A q \in Programs \ {"serve"} : token'[q] = token[q]
    BY <1>0, <1>10, ForgetsType DEF Terminate, setup
  <2> QED
    BY <1>0, <2>1, <2>2 DEF NotExist
<1> QED
  BY <1>1, <1>2, <1>3, <1>4, <1>5, <1>6, <1>7, <1>8, <1>9, <1>10

\* The inductive invariant of the three programs and their file.
THEOREM Invariance == Spec => []Inv
<1>1. Inv /\ [Next]_vars => Inv'
  BY StepType, WritingInv, InstallInv, OtherInv DEF Inv, Next
<1> QED
  BY <1>1, InitInv, PTL DEF Spec

\* The file, its programs and the service keep their types, also when power is
\* lost.
THEOREM TypeCorrect == Spec => []TypeOK
<1>1. Inv => TypeOK
  BY DEF Inv
<1> QED
  BY <1>1, Invariance, PTL

\* Whatever is killed, removed or lost, and however the service and the installer
\* interleave, the server accepts the token in the file after an installation.
THEOREM InstalledTokenAcceptedHolds == Spec => []InstalledTokenAccepted
<1>1. Inv => InstalledTokenAccepted
  BY DEF Inv, Installed, InstalledTokenAccepted
<1> QED
  BY <1>1, Invariance, PTL

\* Whatever the others do meanwhile, an upgrade keeps a token that is there.
THEOREM UpgradeKeepsTokenHolds == Spec => UpgradeKeepsToken
<1> DEFINE Keeps == pc["install"] = "rename" /\ pc'["install"] = "chmod" => ~hadToken
<1>1. Inv /\ [Next]_vars => [Keeps]_vars
  BY DEF Inv, Looked
<1>2. Spec => [][Keeps]_vars
  <2> HIDE DEF Keeps
  <2> QED
    BY <1>1, Invariance, PTL DEF Spec
<1> QED
  BY <1>2 DEF UpgradeKeepsToken

-------------------------------------------------------------------------------
(* What an installed service needs in order to start.                      *)

\* Nobody who may leave a file that the service cannot read rotates.
OnlyService == Operator = "fleetpulse" \/ rotations = 0

\* After the chown, only the service user renames files.
Handed ==
  pc["install"] \in {"restart", "done"} /\ OnlyService => NotExist \/ file.owner = "fleetpulse"

\* A file that the installer found readable, or wrote, is not an empty one: only
\* a loss of power empties a file, and it ends the installation.
Filled == pc["install"] \in {"chmod", "chown", "restart", "done"} => file.value # Empty

\* There is a configuration, although it may be partial.
Settled ==
  /\ pc["install"] = "write" => config = "partial"
  /\ pc["install"] \notin {"off", "write"} => config \in {"partial", "whole"}

Running == pc["install"] = "done" => (active \/ stopped) /\ enabled

Startable == Handed /\ Filled /\ Settled /\ Running

\* What an installer knows stays so while it is where it is, as long as the file and
\* the configuration are left alone, and the service is to run or has been stopped.
LEMMA SameStartable ==
  ASSUME Startable, UNCHANGED <<file, config, enabled>>, pc'["install"] = pc["install"],
         active \/ stopped => active' \/ stopped', OnlyService' => OnlyService
  PROVE  Startable'
  BY DEF Startable, Handed, Filled, Settled, Running, NotExist

\* So it does while the installer is away.
LEMMA AwayStartable == pc'["install"] = "off" => Startable'
  BY DEF Startable, Handed, Filled, Settled, Running

\* A rotation is counted.
LEMMA OnlyServiceStays ==
  ASSUME TypeOK, rotations' = rotations \/ rotations' = rotations + 1
  PROVE  OnlyService' => OnlyService
<1>1. rotations \in Nat
  BY DEF TypeOK
<1> QED
  BY <1>1 DEF OnlyService

\* Of the three programs, only the installer renames a file of root's while an
\* installation lasts, and it hands it over afterwards.
LEMMA WritingStartable ==
  ASSUME Inv, Startable, NEW p \in Programs, Writing(p)
  PROVE  Startable'
<1>0. /\ p = "serve" \/ p = "install" \/ p = "rotate"
      /\ "serve" \in Programs /\ "install" \in Programs /\ "rotate" \in Programs
  BY DEF Programs
<1>1. UNCHANGED <<config, active, enabled, rotations, stopped>>
  BY DEF Writing, WriteTemp, Rename, Chmod, setup, systemd, count, history
<1>2. CASE WriteTemp(p)
  <2>1. pc'[p] = "rename" /\ \A q \in Programs \ {p} : pc'[q] = pc[q]
    BY <1>2, Apart DEF Inv, WriteTemp
  <2>2. file' = file /\ pc[p] = "temp"
    BY <1>2 DEF WriteTemp
  <2> QED
    BY <1>0, <1>1, <2>1, <2>2
       DEF Startable, Handed, Filled, Settled, Running, NotExist, OnlyService
<1>3. CASE Rename(p)
  <2>1. pc'[p] = "chmod" /\ \A q \in Programs \ {p} : pc'[q] = pc[q]
    BY <1>3, Apart DEF Inv, Rename
  <2>2. pc[p] = "rename" /\ file' = [value |-> token[p], owner |-> UserOf(p)]
    BY <1>3 DEF Rename
  <2>3. file'.value \in Tokens /\ file'.owner = UserOf(p)
    BY <2>2 DEF Inv, Generated
  <2>4. file'.value # Empty
    BY <2>3, ConstantsAssumption DEF Tokens, Empty
  <2>5. Filled' /\ Settled' /\ Running'
    BY <1>0, <1>1, <2>1, <2>2, <2>4 DEF Startable, Filled, Settled, Running
  <2>6. Handed'
    <3>1. CASE p = "install"
      BY <2>1, <3>1 DEF Handed
    <3>2. CASE p = "serve"
      BY <2>3, <3>2 DEF Handed, UserOf
    <3>3. CASE p = "rotate"
      <4>1. OnlyService' => Operator = "fleetpulse"
        BY <1>1, <2>2, <3>3 DEF OnlyService, Inv, Quiet
      <4> QED
        BY <2>3, <3>3, <4>1 DEF Handed, UserOf
    <3> QED
      BY <1>0, <3>1, <3>2, <3>3
  <2> QED
    BY <2>5, <2>6 DEF Startable
<1>4. CASE Chmod(p)
  <2>1. /\ p = "install" => pc'["install"] \in {"chown", "off"}
        /\ \A q \in Programs \ {p} : pc'[q] = pc[q]
    BY <1>4, Apart DEF Inv, Chmod, AfterWrite, AfterError
  <2>2. file' = file /\ pc[p] = "chmod"
    BY <1>4 DEF Chmod
  <2> QED
    BY <1>0, <1>1, <2>1, <2>2
       DEF Startable, Handed, Filled, Settled, Running, NotExist, OnlyService
<1> QED
  BY <1>2, <1>3, <1>4 DEF Writing

\* The installer writes or keeps a configuration, looks at the file, hands it over
\* and lets systemd run the service, in this order.
LEMMA InstallStartable ==
  ASSUME Inv, Startable, Install \/ BeginInstall
  PROVE  Startable'
<1>0. /\ "install" \in Programs /\ pc \in [Programs -> Places] /\ file \in File
      /\ config \in Configurations
  BY DEF Inv, TypeOK, Programs
<1> USE DEF Startable, Handed, Filled, Settled, Running
<1>1. CASE InstallShows
  <2>1. Loads("install") => file.value # Empty
    BY DEF Loads
  <2> QED
    BY <1>0, <1>1, <2>1 DEF InstallShows, setup, Goto
<1>2. CASE InstallChowns
  <2>1. NotExist \/ (file'.owner = "fleetpulse" /\ file'.value = file.value)
    BY <1>0, <1>2 DEF InstallChowns, File
  <2> QED
    BY <1>0, <1>2, <2>1 DEF InstallChowns, setup, Goto
<1>3. CASE InstallRestarts
  <2>1. /\ pc["install"] = "restart" /\ pc'["install"] = "done" /\ active' /\ enabled'
        /\ UNCHANGED <<file, config, rotations>>
    BY <1>0, <1>3 DEF InstallRestarts, setup, count
  <2> QED
    BY <2>1 DEF NotExist, OnlyService
<1>4. CASE InstallEnables
  BY <1>0, <1>4, AwayStartable DEF InstallEnables, Goto
<1>5. CASE BeginInstall
  BY <1>0, <1>5 DEF BeginInstall, Configures, Goto, Configurations
<1>6. CASE InstallWritesConfig
  BY <1>0, <1>6 DEF InstallWritesConfig, Goto
<1> QED
  BY <1>1, <1>2, <1>3, <1>4, <1>5, <1>6 DEF Install

\* A loss of power ends an installation, unless all of it had reached the disk.
LEMMA PowerLossStartable ==
  ASSUME Inv, Startable, PowerLoss
  PROVE  Startable'
<1>1. /\ pc'["install"] = IF pc["install"] = "done" /\ disk = file /\ synced = config
                            THEN "done" ELSE "off"
      /\ active' = enabled /\ enabled' = enabled /\ rotations' = rotations
  BY DEF PowerLoss, Programs
<1>2. CASE pc'["install"] = "off"
  BY <1>2, AwayStartable
<1>3. CASE pc["install"] = "done" /\ disk = file /\ synced = config
  <2>1. ~Unwritten
    BY <1>3 DEF Unwritten
  <2>2. file' = file /\ config' = config
    BY <1>3, <2>1 DEF PowerLoss
  <2> QED
    BY <1>1, <1>3, <2>2
       DEF Startable, Handed, Filled, Settled, Running, NotExist, OnlyService
<1> QED
  BY <1>1, <1>2, <1>3

\* So do all the other steps.
LEMMA OtherStartable ==
  ASSUME Inv, Startable,
         \/ Serve \/ BeginRotate \/ PrintRotated \/ Remove \/ Uninstall \/ Terminate
         \/ Writeback \/ (\E p \in Programs : Kill(p)) \/ UNCHANGED vars
  PROVE  Startable'
<1>0. /\ "serve" \in Programs /\ "install" \in Programs /\ "rotate" \in Programs
      /\ pc \in [Programs -> Places] /\ TypeOK
  BY DEF Inv, TypeOK, Programs
<1>1. CASE Serve \/ Writeback \/ UNCHANGED vars
  <2>1. /\ UNCHANGED <<file, config, active, enabled, rotations, stopped>>
        /\ pc'["install"] = pc["install"]
    BY <1>0, <1>1 DEF Serve, StartServe, ServeOpens, ServeLoads, ServeCreates, ServeFails, Goto,
                      Writeback, vars, setup, systemd, count, history
  <2> QED
    BY <1>0, <2>1, OnlyServiceStays, SameStartable
<1>2. CASE BeginRotate \/ PrintRotated
  <2>1. /\ UNCHANGED <<file, config, active, enabled, stopped>> /\ pc'["install"] = pc["install"]
        /\ rotations' = rotations \/ rotations' = rotations + 1
    BY <1>0, <1>2 DEF BeginRotate, PrintRotated, Goto, setup, systemd, count, history
  <2> QED
    BY <1>0, <2>1, OnlyServiceStays, SameStartable
<1>3. CASE Remove
  <2>1. /\ UNCHANGED <<config, active, enabled, rotations, pc, stopped>>
        /\ file'.value = NoToken
    BY <1>3 DEF Remove, setup, systemd, NoFile
  <2>2. NoToken # Empty
    BY DEF NoToken, Empty
  <2> QED
    BY <2>1, <2>2 DEF Startable, Handed, Filled, Settled, Running, NotExist
<1>4. CASE Uninstall
  <2>1. pc'["install"] = "off"
    BY <1>0, <1>4 DEF Uninstall
  <2> QED
    BY <2>1, AwayStartable
<1>5. ASSUME NEW p \in Programs, Kill(p)
      PROVE  Startable'
  <2>1. pc'[p] = "off" /\ \A q \in Programs \ {p} : pc'[q] = pc[q]
    BY <1>0, <1>5, Apart DEF Kill
  <2>2. UNCHANGED <<file, config, active, enabled, rotations, stopped>>
    BY <1>5 DEF Kill, setup, systemd, history
  <2>3. CASE p = "install"
    BY <2>1, <2>3, AwayStartable
  <2>4. CASE p # "install"
    BY <1>0, <2>1, <2>2, <2>4, OnlyServiceStays, SameStartable
  <2> QED
    BY <2>3, <2>4
<1>6. CASE Terminate
  <2>1. /\ UNCHANGED <<file, config, enabled, rotations>> /\ stopped'
        /\ pc'["install"] = pc["install"]
    BY <1>0, <1>6 DEF Terminate, Goto, setup
  <2> QED
    BY <1>0, <2>1, OnlyServiceStays, SameStartable
<1> QED
  BY <1>1, <1>2, <1>3, <1>4, <1>5, <1>6

LEMMA InitStartable == Init => Startable
<1>1. Init => pc["install"] = "off"
  BY DEF Init, Programs
<1> QED
  BY <1>1 DEF Startable, Handed, Filled, Settled, Running

\* For every bound, and whatever is killed, removed, rotated by the service user or
\* lost with the power, an installed service is to run, unless it was told to
\* terminate, and with a whole configuration it reads its token or creates one: what
\* InstalledServiceListens needs beside fairness.
THEOREM InstalledServiceStartsHolds == Spec => []InstalledServiceStarts
<1>1. Inv /\ Startable /\ [Next]_vars => Startable'
  BY WritingStartable, InstallStartable, PowerLossStartable, OtherStartable DEF Next
<1>2. Startable => InstalledServiceStarts
  BY DEF Startable, Handed, Filled, Settled, Running, OnlyService, InstalledServiceStarts,
         Loads, Permitted, UserOf
<1> QED
  BY <1>1, <1>2, InitStartable, Invariance, PTL DEF Spec
===============================================================================
