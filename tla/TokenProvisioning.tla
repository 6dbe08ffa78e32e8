--------------------------- MODULE TokenProvisioning ---------------------------
(***************************************************************************)
(* The bearer token on a Linux host: the file that internal/token keeps,   *)
(* and the three programs that write it: fleetpulse serve, which creates   *)
(* the token when there is none and accepts it for as long as it listens;  *)
(* packaging/linux/install.sh, which provisions one, hands the file to the *)
(* service user and restarts the service; and an operator's fleetpulse     *)
(* token rotate. The operator may also remove the file, or the service     *)
(* with packaging/linux/uninstall.sh, which keeps the file.                *)
(*                                                                         *)
(* The programs run concurrently, as different users, and lock nothing.    *)
(* Each may be killed between any two steps. systemd starts the service    *)
(* again when it failed, and not when it was told to terminate. Nothing is *)
(* synced: when the power fails, the file may be as it last reached the    *)
(* disk, or there without its contents.                                    *)
(*                                                                         *)
(* The installer also writes the configuration of the service, or migrates *)
(* that of an old version, which listened locally and asked for no token.  *)
(***************************************************************************)
EXTENDS Integers, Functions

CONSTANTS
  MaxTokens,    \* bound on the tokens that are about at one time
  Operator,     \* the user who runs token rotate
  MaxInstalls,  \* bound on the runs of the installer
  MaxRotations, \* bound on the runs of token rotate
  MaxEvents     \* bound on the kills, removals and losses of power, together

Users == {"root", "fleetpulse"}

Tokens  == 1..MaxTokens
NoToken == 0
Empty   == -1
Anyone  == -2  \* what a server without authentication accepts

ASSUME ConstantsAssumption ==
  /\ MaxTokens \in Nat
  /\ Operator \in Users
  /\ MaxInstalls \in Nat /\ MaxRotations \in Nat /\ MaxEvents \in Nat

VARIABLES
  file,       \* the token file: see File
  disk,       \* the token file as it last reached the disk
  config,     \* the configuration: see Configurations
  synced,     \* the configuration as it last reached the disk
  pc,         \* where each program is
  token,      \* the token it has in hand
  accepts,    \* the token the listening server accepts
  active,     \* whether systemd keeps the service running
  enabled,    \* whether it starts the service when the host boots
  installs, rotations,
  events,     \* the kills, removals and losses of power so far
  printed,    \* history: the token rotate printed last
  hadToken,   \* history: whether the file held a token as the installer began
  stopped     \* history: whether a signal ended the service since it was told to run

count   == <<installs, rotations, events>>
history == <<printed, hadToken, stopped>>
systemd == <<active, enabled>>
setup   == <<config, synced>>
vars    == <<file, disk, setup, pc, token, accepts, systemd, count, history>>

Programs == {"serve", "install", "rotate"}
\* The file is replaced by renaming a complete one over it, so it is absent,
\* which its value NoToken stands for, or whole; a loss of power may empty it.
File == [value: Tokens \cup {NoToken, Empty}, owner: Users]
NoFile == [value |-> NoToken, owner |-> "root"]

\* partial: what is there cannot be parsed. open: an old version's, which asks for
\* no token.
Configurations == {"none", "partial", "open", "whole"}

Places == {"off", "write", "load", "temp", "rename", "chmod", "chown", "restart", "print",
           "listen", "done"}

UserOf(p) == CASE p = "serve" -> "fleetpulse" [] p = "install" -> "root"
               [] p = "rotate" -> Operator

NotExist == file.value = NoToken

\* Mode 0600: the owner and root may read the file, and change its mode.
Permitted(p) == ~NotExist /\ UserOf(p) \in {"root", file.owner}

Goto(p, place) == pc' = [pc EXCEPT ![p] = place]

\* A new host, or one where an old version runs.
Init ==
  /\ file = NoFile /\ disk = NoFile
  /\ \/ config = "none" /\ active = FALSE
     \/ config = "open" /\ active = TRUE
  /\ synced = config /\ enabled = active
  /\ pc = [p \in Programs |-> "off"]
  /\ token = [p \in Programs |-> NoToken]
  /\ accepts = NoToken
  /\ installs = 0 /\ rotations = 0 /\ events = 0
  /\ printed = NoToken
  /\ hadToken = FALSE
  /\ stopped = FALSE

-------------------------------------------------------------------------------
(* token.LoadFile and token.writeProtected, as each program runs them.     *)

\* LoadFile returns the token; or an error, which IsNotExist tells apart, and
\* which an empty file gives as well.
Loads(p) == Permitted(p) /\ file.value # Empty

\* Generate returns a token that is new. Which one does not matter, and one that
\* nobody has any more is as good as new.
Unused == Tokens \ ({file.value, disk.value, accepts, printed} \cup Range(token))
Generate == {t \in Unused : \A u \in Unused : t <= u}

\* Generate, and the temporary file, which nobody else looks at.
WriteTemp(p) ==
  /\ pc[p] = "temp"
  /\ \E t \in Generate : token' = [token EXCEPT ![p] = t]
  /\ Goto(p, "rename")
  /\ UNCHANGED <<file, disk, setup, accepts, systemd, count, history>>

\* Slip: the file is left without an owner.
RenameUnowned(p) ==
  /\ pc[p] = "rename"
  /\ file' = [value |-> token[p]]
  /\ Goto(p, "chmod")
  /\ UNCHANGED <<disk, setup, token, accepts, systemd, count, history>>

Rename(p) ==
  /\ pc[p] = "rename"
  /\ file' = [value |-> token[p], owner |-> UserOf(p)]
  /\ Goto(p, "chmod")
  /\ UNCHANGED <<disk, setup, token, accepts, systemd, count, history>>

\* The final chmod of the path, which may be another program's file by now.
\* Where each program goes on, and where it ends when the chmod fails.
AfterWrite(p) == CASE p = "serve" -> "listen" [] p = "install" -> "chown"
                   [] p = "rotate" -> "print"
AfterError(p) == "off"

\* The token is gone with the program, or served.
Forgets(p) == [token EXCEPT ![p] = NoToken]

Chmod(p) ==
  /\ pc[p] = "chmod"
  /\ Goto(p, IF Permitted(p) THEN AfterWrite(p) ELSE AfterError(p))
  /\ accepts' = IF p = "serve" /\ Permitted(p) THEN token[p] ELSE accepts
  /\ token' = IF p = "rotate" /\ Permitted(p) THEN token ELSE Forgets(p)
  /\ UNCHANGED <<file, disk, setup, systemd, count, history>>

-------------------------------------------------------------------------------
(* fleetpulse serve, under systemd.                                        *)

StartServe ==
  /\ active /\ pc["serve"] = "off"
  /\ Goto("serve", "load")
  /\ UNCHANGED <<file, disk, setup, token, accepts, systemd, count, history>>

\* A configuration that asks for no token.
ServeOpens ==
  /\ pc["serve"] = "load" /\ config = "open"
  /\ accepts' = Anyone
  /\ Goto("serve", "listen")
  /\ UNCHANGED <<file, disk, setup, token, systemd, count, history>>

\* EnsureFile: the token is loaded; or created, when there is no file; or the
\* program exits, as it does without a configuration.
ServeLoads ==
  /\ pc["serve"] = "load" /\ config = "whole" /\ Loads("serve")
  /\ accepts' = file.value
  /\ Goto("serve", "listen")
  /\ UNCHANGED <<file, disk, setup, token, systemd, count, history>>

ServeCreates ==
  /\ pc["serve"] = "load" /\ config = "whole" /\ NotExist
  /\ Goto("serve", "temp")
  /\ UNCHANGED <<file, disk, setup, token, accepts, systemd, count, history>>

ServeFails ==
  /\ pc["serve"] = "load"
  /\ \/ config \in {"none", "partial"}
     \/ config = "whole" /\ ~Loads("serve") /\ ~NotExist
  /\ Goto("serve", "off")
  /\ UNCHANGED <<file, disk, setup, token, accepts, systemd, count, history>>

-------------------------------------------------------------------------------
(* packaging/linux/install.sh.                                             *)

\* What it does about the configuration, which nobody else writes. A new one is
\* written in place, so it is partial at first; an old version's is migrated by
\* renaming; and any other is kept, even one that a killed installer left partial.
Configures ==
  \/ config = "none" /\ config' = "partial" /\ Goto("install", "write")
  \/ config = "open" /\ config' = "whole" /\ Goto("install", "load")
  \/ config \in {"partial", "whole"} /\ UNCHANGED config /\ Goto("install", "load")

BeginInstall ==
  /\ pc["install"] \in {"off", "done"} /\ installs < MaxInstalls
  /\ installs' = installs + 1
  /\ hadToken' = (file.value \in Tokens)
  /\ Configures
  /\ UNCHANGED <<file, disk, synced, token, accepts, systemd, rotations, events, printed,
                 stopped>>

InstallWritesConfig ==
  /\ pc["install"] = "write"
  /\ config' = "whole"
  /\ Goto("install", "load")
  /\ UNCHANGED <<file, disk, synced, token, accepts, systemd, count, history>>

\* Slip: a token is generated only when there is no file.
InstallLooks ==
  /\ pc["install"] = "load"
  /\ Goto("install", IF NotExist THEN "temp" ELSE "chown")
  /\ UNCHANGED <<file, disk, setup, token, accepts, systemd, count, history>>

\* Slip: token show runs as the service user.
InstallShowsAsService ==
  /\ pc["install"] = "load"
  /\ Goto("install", IF Loads("serve") THEN "chown" ELSE "temp")
  /\ UNCHANGED <<file, disk, setup, token, accepts, systemd, count, history>>

\* token show, and token rotate when it fails.
InstallShows ==
  /\ pc["install"] = "load"
  /\ Goto("install", IF Loads("install") THEN "chown" ELSE "temp")
  /\ UNCHANGED <<file, disk, setup, token, accepts, systemd, count, history>>

\* Slip: chmod alone, which leaves a new file to root.
InstallChmods ==
  /\ pc["install"] = "chown"
  /\ Goto("install", IF NotExist THEN "off" ELSE "restart")
  /\ UNCHANGED <<file, disk, setup, token, accepts, systemd, count, history>>

\* chown and chmod of the token file, which must still be there (set -e).
InstallChowns ==
  /\ pc["install"] = "chown"
  /\ IF NotExist
       THEN Goto("install", "off") /\ UNCHANGED file
       ELSE /\ file' = [file EXCEPT !.owner = "fleetpulse"]
            /\ Goto("install", "restart")
  /\ UNCHANGED <<disk, setup, token, accepts, systemd, count, history>>

\* Slip: systemctl start, which leaves a running service alone.
InstallStarts ==
  /\ pc["install"] = "restart"
  /\ active' = TRUE /\ enabled' = TRUE
  /\ pc' = [pc EXCEPT !["install"] = "done",
                     !["serve"] = IF @ = "off" THEN "load" ELSE @]
  /\ stopped' = FALSE
  /\ UNCHANGED <<file, disk, setup, token, accepts, count, printed, hadToken>>

\* systemctl enable and restart: the service is stopped, wherever it is, and
\* started.
InstallRestarts ==
  /\ pc["install"] = "restart"
  /\ active' = TRUE /\ enabled' = TRUE
  /\ accepts' = NoToken
  /\ pc' = [pc EXCEPT !["install"] = "done", !["serve"] = "load"]
  /\ token' = Forgets("serve")
  /\ stopped' = FALSE
  /\ UNCHANGED <<file, disk, setup, count, printed, hadToken>>

\* With START_SERVICE=false the service is only enabled, and an older server
\* goes on.
InstallEnables ==
  /\ pc["install"] = "restart"
  /\ enabled' = TRUE
  /\ Goto("install", "off")
  /\ UNCHANGED <<file, disk, setup, token, accepts, active, count, history>>

\* packaging/linux/uninstall.sh, which is not run while the installer is. It
\* stops and disables the service, and leaves the token.
Uninstall ==
  /\ events < MaxEvents
  /\ pc["install"] \in {"off", "done"}
  /\ events' = events + 1
  /\ active' = FALSE /\ enabled' = FALSE
  /\ accepts' = NoToken
  /\ pc' = [pc EXCEPT !["install"] = "off", !["serve"] = "off"]
  /\ token' = Forgets("serve")
  /\ stopped' = FALSE
  /\ UNCHANGED <<file, disk, setup, installs, rotations, printed, hadToken>>

-------------------------------------------------------------------------------
(* fleetpulse token rotate.                                                *)

BeginRotate ==
  /\ pc["rotate"] = "off" /\ rotations < MaxRotations
  /\ rotations' = rotations + 1
  /\ Goto("rotate", "temp")
  /\ UNCHANGED <<file, disk, setup, token, accepts, systemd, installs, events,
                 history>>

PrintRotated ==
  /\ pc["rotate"] = "print"
  /\ printed' = token["rotate"]
  /\ token' = Forgets("rotate")
  /\ Goto("rotate", "off")
  /\ UNCHANGED <<file, disk, setup, accepts, systemd, count, hadToken, stopped>>

-------------------------------------------------------------------------------
\* The operator removes the token file.
Remove ==
  /\ events < MaxEvents
  /\ ~NotExist
  /\ events' = events + 1
  /\ file' = NoFile
  /\ hadToken' = FALSE
  /\ UNCHANGED <<disk, setup, pc, token, accepts, systemd, installs, rotations,
                 printed, stopped>>

\* A program is killed. A temporary file it leaves behind is never read. Of the
\* service this is a failure, by SIGKILL or a signal like it, and systemd is to
\* start it again.
Kill(p) ==
  /\ events < MaxEvents
  /\ pc[p] \notin {"off", "done"}
  /\ events' = events + 1
  /\ Goto(p, "off")
  /\ accepts' = IF p = "serve" THEN NoToken ELSE accepts
  /\ token' = Forgets(p)
  /\ UNCHANGED <<file, disk, setup, systemd, installs, rotations, history>>

\* The service gets SIGTERM, SIGINT or SIGHUP, which it does not handle. It ends, and
\* Restart=on-failure takes this for a clean end.
Terminate ==
  /\ events < MaxEvents
  /\ pc["serve"] # "off"
  /\ events' = events + 1
  /\ active' = FALSE /\ stopped' = TRUE
  /\ accepts' = NoToken
  /\ Goto("serve", "off")
  /\ token' = Forgets("serve")
  /\ UNCHANGED <<file, disk, setup, enabled, installs, rotations, printed, hadToken>>

\* The file, or the configuration, reaches the disk.
Writeback ==
  /\ \/ disk # file /\ disk' = file /\ UNCHANGED synced
     \/ synced # config /\ synced' = config /\ UNCHANGED disk
  /\ UNCHANGED <<file, config, pc, token, accepts, systemd, count, history>>

Unwritten == ~NotExist /\ file.value # disk.value
Emptied   == [file EXCEPT !.value = Empty]

\* The power fails, and the host boots. What had not reached the disk may be
\* lost: all of it, or only the contents of a new file. An installation that had
\* not reached the disk no longer counts as done.
PowerLoss ==
  /\ events < MaxEvents
  /\ events' = events + 1
  /\ \E lost \in {file, disk} \cup IF Unwritten THEN {Emptied} ELSE {} :
       file' = lost /\ disk' = lost
  /\ \E lost \in {config, synced} \cup IF config # synced THEN {"partial"} ELSE {} :
       config' = lost /\ synced' = lost
  /\ pc' = [p \in Programs |->
             IF p = "install" /\ pc[p] = "done" /\ disk = file /\ synced = config THEN "done" ELSE "off"]
  /\ accepts' = NoToken
  /\ token' = [p \in Programs |-> NoToken]
  /\ active' = enabled /\ stopped' = FALSE
  /\ UNCHANGED <<enabled, installs, rotations, printed, hadToken>>

Serve   == StartServe \/ ServeOpens \/ ServeLoads \/ ServeCreates \/ ServeFails
Install == InstallWritesConfig \/ InstallShows \/ InstallChowns \/ InstallRestarts \/ InstallEnables
Writing(p) == WriteTemp(p) \/ Rename(p) \/ Chmod(p)

Next ==
  \/ Serve \/ Install \/ BeginInstall \/ BeginRotate \/ PrintRotated \/ Remove
  \/ Uninstall \/ Terminate \/ Writeback \/ PowerLoss
  \/ \E p \in Programs : Writing(p) \/ Kill(p)

Spec == Init /\ [][Next]_vars

\* A program that runs goes on until it ends or gets a signal, and systemd starts
\* the service five seconds after each failure. After a clean end it does not.
FairSpec ==
  /\ Spec
  /\ WF_vars(Serve) /\ WF_vars(Install) /\ WF_vars(PrintRotated)
  /\ \A p \in Programs : WF_vars(Writing(p))

-------------------------------------------------------------------------------
TypeOK ==
  /\ file \in File /\ disk \in File
  /\ config \in Configurations /\ synced \in Configurations
  /\ pc \in [Programs -> Places]
  /\ token \in [Programs -> Tokens \cup {NoToken}]
  /\ accepts \in Tokens \cup {NoToken, Anyone}
  /\ active \in BOOLEAN /\ enabled \in BOOLEAN
  /\ installs \in 0..MaxInstalls /\ rotations \in 0..MaxRotations
  /\ events \in 0..MaxEvents
  /\ printed \in Tokens \cup {NoToken}
  /\ hadToken \in BOOLEAN
  /\ stopped \in BOOLEAN

\* An installation leaves a server that accepts the token in the file, as long
\* as no operator rotates it, even when a server of an earlier installation found
\* the file removed and was creating a token of its own meanwhile, or one of an
\* old version was starting, which lets anyone in.
InstalledTokenAccepted ==
  pc["install"] = "done" /\ rotations = 0 /\ accepts # NoToken /\ ~NotExist
    => accepts = file.value

\* An upgrade keeps the token, and so does an installation after uninstall.sh:
\* the installer replaces the file only when it held no token as it began, or
\* when it was removed after that.
UpgradeKeepsToken ==
  [][pc["install"] = "rename" /\ pc'["install"] = "chmod" => ~hadToken]_vars

\* After an installation nothing refuses the service: it is to run, unless it was
\* told to terminate since, it reads its configuration, and it reads a token, or
\* finds no file and creates one. Neither a kill of any program, a removal, a rename
\* by a service of before that goes on meanwhile, nor a loss of power once the files
\* are on the disk changes that; a rotation does, by root.
InstalledServiceStarts ==
  pc["install"] = "done" /\ config # "partial" /\ (Operator = "fleetpulse" \/ rotations = 0) =>
    /\ active \/ stopped
    /\ config = "whole"
    /\ NotExist \/ Loads("serve")

\* After an installation the service comes to listen, unless another one begins,
\* or it is uninstalled or told to terminate first: however often it fails or is
\* killed by a signal that counts as a failure, whatever the service user rotates,
\* when the token file is removed, when a loss of power before had left the file
\* empty, and across one that comes once the files are on the disk.
\* Only a configuration that an earlier installer, or a loss of power, left partial
\* keeps it from listening: nothing repairs it.
InstalledServiceListens ==
  pc["install"] = "done" ~>
    accepts # NoToken \/ pc["install"] # "done" \/ stopped \/ config = "partial"

\* Where the service is installed, a client that updates its Authorization header
\* to the token that rotate printed, and left in the file, is let in sooner or
\* later.
Rotated(t) == printed = t /\ file.value = t /\ pc["install"] = "done"
RotatedTokenAccepted == \A t \in Tokens : Rotated(t) ~> accepts = t \/ ~Rotated(t)
===============================================================================
