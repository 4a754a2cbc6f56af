---------------------------- MODULE ProgramStart ----------------------------
(***************************************************************************)
(* From main() to the main loop, for both programs (the tunserver and the  *)
(* newloop), with the key files that outlive the process.  A process may   *)
(* be killed between any two steps, and another is started on the files it *)
(* left.  The code under EXTLEVEL_IS_PREVIEW is not part of the build.     *)
(* A file is Absent, Empty, or holds the keys of one generation; writing   *)
(* one truncates it first.  Capabilities are those of the main thread.     *)
(***************************************************************************)
EXTENDS Integers, FiniteSets

CONSTANTS Homes,     \* home directories: "env" is $HOME, "user" that of the sudo user
          MaxStart,  \* bound: processes ever started
          MaxGen     \* bound: key pairs ever generated

ASSUME StartConstants ==
  Homes = {"env", "user"} /\ MaxStart \in Nat \ {0} /\ MaxGen \in Nat \ {0}

VARIABLES startPc,
          cmdline,     \* the options of this process
          creds,       \* its user ids and capabilities
          home_dir,    \* datastore::home_dir
          files,       \* files[h]: the key files below home directory h
          generated,   \* key pairs generated so far
          have_keys,   \* have_keys_configured
          identity,    \* the loaded IDI: generations of its PRV and pub, 0 if none
          exitcode,    \* of the process
          starts,
          granted,     \* homes in which the user allowed a key file to be overwritten
          firstId      \* firstId[h]: generation a main loop first ran with in h

procVars == <<cmdline, creds, home_dir, have_keys, identity, exitcode>>
startVars == <<startPc, procVars, files, generated, starts, granted, firstId>>

Absent == -1
Empty == 0
NoCode == -1
NoIdentity == [PRV |-> 0, pub |-> 0]

Caps == {"NET_ADMIN", "NET_RAW", "SETUID", "SETGID", "SETPCAP", "CHOWN", "other"}
Areas == {"eff", "permit", "inherit", "bounding"}

CapsOf(s) == [a \in Areas |-> IF a = "bounding" THEN Caps
                              ELSE IF a = "inherit" THEN {} ELSE s]

\* Who starts the program: a user (with or without file capabilities), root
\* through sudo by a user, by an unknown name, by root, root itself, a SUID binary.
Starters == [uid : {1}, euid : {1}, SUDO_USER : {"none"}, caps : {CapsOf({}), CapsOf({"NET_ADMIN", "NET_RAW"})}]
       \cup [uid : {0}, euid : {0}, SUDO_USER : {"none", "user", "root", "unknown"}, caps : {CapsOf(Caps)}]
       \cup [uid : {1}, euid : {0}, SUDO_USER : {"none"}, caps : {CapsOf(Caps)}]

Commands == {"run", "print-flags-flavour", "mode-bench", "unknown", "help", "helptopic-peer",
             "helptopic-other", "info", "info-my-key", "list-my-keys", "gen-key-simple", "special"}

\* The other options matter to a run only.
CommandLines ==
  { c \in [cmd : Commands, newloop : BOOLEAN, home_env : BOOLEAN, insecure_cap : BOOLEAN,
           set_prefix : {"supported", "other"}, peer : {"good", "bad"}] :
      c.cmd # "run" => c.set_prefix = "supported" /\ ~c.insecure_cap /\ c.peer = "good" }

\* No process runs, so none of its memory exists.
NoProcess ==
  [cmdline |-> CHOOSE c \in CommandLines : c.cmd = "run", creds |-> CHOOSE c \in Starters : TRUE]

StartInit ==
  /\ startPc = "none"
  /\ cmdline = NoProcess.cmdline /\ creds = NoProcess.creds /\ home_dir = "env"
  /\ have_keys = FALSE /\ identity = NoIdentity /\ exitcode = NoCode
  /\ files = [h \in Homes |-> [PRV |-> Absent, pub |-> Absent, IDI |-> Absent]]
  /\ generated = 0 /\ starts = 0 /\ granted = {} /\ firstId = [h \in Homes |-> 0]

StartProcess ==
  /\ startPc = "none" /\ starts < MaxStart
  /\ starts' = starts + 1 /\ startPc' = "early"
  /\ cmdline' \in CommandLines /\ creds' \in Starters
  /\ home_dir' = "env" /\ have_keys' = FALSE /\ identity' = NoIdentity /\ exitcode' = NoCode
  /\ UNCHANGED <<files, generated, granted, firstId>>

\* The process is killed at any step, or has ended by itself; the files stay.
Gone ==
  /\ startPc # "none" /\ startPc' = "none"
  /\ cmdline' = NoProcess.cmdline /\ creds' = NoProcess.creds /\ home_dir' = "env"
  /\ have_keys' = FALSE /\ identity' = NoIdentity /\ exitcode' = NoCode
  /\ UNCHANGED <<files, generated, starts, granted, firstId>>

\* Leaving the process: return from main, an exception nobody catches, abort().
Terminate(code) == startPc' = "ended" /\ exitcode' = code
Throws == Terminate(134)
Aborts == Terminate(134)

Goto(pc) == startPc' = pc /\ UNCHANGED exitcode

-----------------------------------------------------------------------------
\* Capabilities (capmodpp) and user ids (privileges).

Unchanged3 == [eff |-> "unchanged", permit |-> "unchanged", inherit |-> "unchanged",
               bounding |-> "unchanged"]
Disable3 == [Unchanged3 EXCEPT !.eff = "disable", !.permit = "disable", !.inherit = "disable"]

apply_change_perm(has, change) ==
  CASE change = "enable" -> TRUE [] change = "disable" -> FALSE [] OTHER -> has

\* given is a function from some capabilities to their changes.
security_apply_now(caps, given, all_others) ==
  [a \in Areas |->
     { c \in Caps : apply_change_perm(c \in caps[a],
                      IF c \in DOMAIN given THEN given[c][a] ELSE all_others[a]) }]

do_we_need_to_change_uid_or_gid == creds.euid = 0 \/ creds.uid = 0
SuidBinary == creds.uid # creds.euid

\* Each call into cap-ng may fail, or return what it should not: capmodpp_error,
\* which nobody catches on startup and main catches later.
CapngFails == UNCHANGED creds /\ IF startPc = "drop_priv" THEN Throws ELSE Terminate(2)

ApplyCaps(given, others, next) ==
  \/ /\ creds' = [creds EXCEPT !.caps = security_apply_now(@, given, others)]
     /\ Goto(next)
  \/ CapngFails

\* To the user who called sudo, with his home unless the environment's is asked for.
drop_root_from_sudo ==
  \/ /\ creds.SUDO_USER = "user"
     /\ creds' = [creds EXCEPT !.uid = 1, !.euid = 1]  \* capng_change_id
     /\ home_dir' = IF cmdline.home_env THEN "env" ELSE "user"
     /\ Goto("drop_priv")
  \/ Throws /\ UNCHANGED <<creds, home_dir>>

\* Errors of the sudo set-up leave the process root; errors of the system calls
\* are thrown out of main.
drop_root ==
  /\ startPc = "drop_root"
  /\ UNCHANGED <<cmdline, have_keys, identity>>
  /\ IF SuidBinary THEN Aborts /\ UNCHANGED <<creds, home_dir>>
     ELSE IF ~do_we_need_to_change_uid_or_gid \/ creds.SUDO_USER \in {"none", "root"}
     THEN /\ home_dir' = "env" /\ UNCHANGED creds
          /\ Goto("drop_priv")
     ELSE drop_root_from_sudo

drop_privileges_on_startup ==
  /\ startPc = "drop_priv"
  /\ UNCHANGED <<cmdline, home_dir, have_keys, identity>>
  /\ ApplyCaps([c \in {"NET_ADMIN", "NET_RAW"}
                  \cup IF do_we_need_to_change_uid_or_gid
                       THEN {"SETUID", "SETGID", "SETPCAP", "CHOWN"} ELSE {} |-> Unchanged3],
               Disable3, "init")

drop_privileges_after_tuntap(next) ==
  ApplyCaps([c \in {"NET_ADMIN", "NET_RAW"} |-> Disable3], Unchanged3, next)

drop_privileges_before_mainloop(next) == ApplyCaps([c \in {} |-> Disable3], Disable3, next)

read_process_caps == creds.caps

have_any_cap == \E a \in {"eff", "permit", "inherit"} : read_process_caps[a] # {}

MutVerifyCapsOnly == IF have_any_cap THEN Aborts ELSE Goto("loop")

\* Only the main loop of the tunserver calls it.
verify_privileges_are_as_for_mainloop ==
  IF have_any_cap \/ SuidBinary \/ do_we_need_to_change_uid_or_gid THEN Aborts ELSE Goto("loop")

-----------------------------------------------------------------------------
\* main() before main_execution.

main_early ==
  /\ startPc = "early"
  /\ UNCHANGED <<cmdline, creds, home_dir, have_keys, identity>>
  /\ CASE cmdline.cmd = "print-flags-flavour" -> Terminate(0)
       [] cmdline.cmd = "mode-bench" -> Terminate(0)     \* netmodel_main
       [] OTHER -> Goto("drop_root")

\* The texts are looked for in five places, and a failure to find or to read them
\* is caught; a failure of the library is not.
init_library_sodium ==
  /\ startPc = "init"
  /\ UNCHANGED <<cmdline, creds, home_dir, have_keys, identity>>
  /\ Goto("options") \/ Throws

options_parse == cmdline.cmd # "unknown"

\* In the newloop --help is read as a string, which throws, and a topic that is
\* not known goes on with the start.
NewloopHelp == cmdline.newloop /\ cmdline.cmd \in {"help", "helptopic-peer"}

\* Parsing throws on an unknown option; then the commands that need no server.
options_commands_run ==
  /\ startPc = "options"
  /\ UNCHANGED <<cmdline, creds, home_dir, have_keys, identity>>
  /\ CASE ~options_parse -> Throws
       [] NewloopHelp -> IF cmdline.cmd = "help" THEN Throws ELSE Terminate(0)
       [] cmdline.cmd = "help" -> Terminate(0)
       [] OTHER -> Goto("main_execution")

\* main_execution returned code, which main drops: it returns 0.
MainReturns(code) == Terminate(0)

\* ui::exception_error_exit, caught by the tunserver's main_execution up to the
\* peers, and by main.
ErrorExit ==
  IF cmdline.newloop \/ startPc = "prepare_socket"
  THEN Terminate(1) ELSE MainReturns(1)

\* Any other exception, caught by main.
StdException == Terminate(2)

Here == files[home_dir]

\* Reading a file of the data store: throws when it is not there or is empty.
load_string_mlocked == Here.PRV > Empty
load_string(file) == Here[file] > Empty
KeysReadable == load_string_mlocked /\ load_string("pub")

\* The names of the wallet, which is there once a key was.
get_file_list == Here.PRV # Absent

\* Throws for a file that does not exist; an empty file is ok.
is_file_ok(file) == Here[file] # Absent

\* The tests of the newloop, which end the program.
run_special == cmdline.newloop /\ cmdline.cmd = "special"

\* The commands that need the server; the newloop ignores those of the tunserver.
main_execution ==
  /\ startPc = "main_execution"
  /\ UNCHANGED <<cmdline, creds, home_dir, have_keys, identity>>
  /\ LET c == IF cmdline.newloop /\ ~run_special THEN "run" ELSE cmdline.cmd
     IN CASE run_special -> MainReturns(2)
          [] c = "info" -> MainReturns(1)                    \* without --my-key
          [] c = "info-my-key" -> IF load_string("pub") THEN MainReturns(0) ELSE StdException
          [] c = "list-my-keys" -> IF get_file_list THEN MainReturns(0) ELSE StdException
          [] c = "gen-key-simple" -> Goto("generate")
          [] OTHER -> Goto("load_my_keys")

-----------------------------------------------------------------------------
\* The keys of this installation.

\* Keys without an IDI count as no keys, since is_file_ok throws.
HaveKeysConfigured == get_file_list /\ is_file_ok("IDI")

\* The prefixes fd42 and fd43 are supported.
PrefixOk == cmdline.set_prefix = "supported"

programtask_load_my_keys ==
  /\ startPc = "load_my_keys"
  /\ UNCHANGED <<cmdline, creds, home_dir, identity>>
  /\ have_keys' = HaveKeysConfigured
  /\ IF ~PrefixOk THEN StdException
     ELSE Goto(IF have_keys' THEN "configure_mykey" ELSE "generate")

Configured == identity' = [PRV |-> Here.PRV, pub |-> Here.pub] /\ Goto("peers")

MutConfigureUnverified ==
  IF load_string("IDI") /\ KeysReadable THEN Configured ELSE ErrorExit /\ UNCHANGED identity

\* The key of this session is signed with PRV and the signature is verified with
\* pub, which throws unless the two belong together.
configure_mykey ==
  IF load_string("IDI") /\ KeysReadable /\ Here.PRV = Here.pub
  THEN Configured ELSE ErrorExit /\ UNCHANGED identity

ConfigureStep ==
  /\ startPc = "configure_mykey"
  /\ configure_mykey
  /\ UNCHANGED <<cmdline, creds, home_dir, have_keys>>

create_keys ==
  /\ startPc = "generate" /\ generated < MaxGen
  /\ generated' = generated + 1
  /\ Goto("prepare_PRV")
  /\ UNCHANGED <<cmdline, creds, home_dir, have_keys, identity,
                 files, starts, granted, firstId>>

MutOverwrites(file) == TRUE

\* prepare_path_for_write without the right to overwrite.
MayWrite(file) == Here[file] \in {Absent, Empty}

\* Opening a file for writing creates it and its directories, or takes its content.
Truncated(file) == files' = [files EXCEPT ![home_dir][file] = Empty]

\* After PRV comes pub; after pub the command is done, or the start goes on.
AfterSave(file) ==
  IF file = "PRV" THEN Goto("prepare_pub")
  ELSE IF cmdline.cmd = "gen-key-simple" /\ ~cmdline.newloop THEN MainReturns(0)
  ELSE Goto("prepare_IDI")

PrepareAt == [PRV |-> "prepare_PRV", pub |-> "prepare_pub"]
WriteAt == [PRV |-> "write_PRV", pub |-> "write_pub"]

\* save_string and save_string_mlocked: the file is created or truncated, then
\* written.  A file with a content is left alone unless the user says yes.
SaveKey(file) ==
  /\ UNCHANGED <<cmdline, creds, home_dir, have_keys, identity, generated, starts, firstId>>
  /\ \/ /\ startPc = PrepareAt[file]
        /\ \/ /\ MayWrite(file) /\ UNCHANGED granted
           \/ /\ ~MayWrite(file) /\ granted' = granted \cup {home_dir}
        /\ Truncated(file)
        /\ Goto(WriteAt[file])
     \/ /\ startPc = PrepareAt[file] /\ ~MayWrite(file)
        /\ AfterSave(file) /\ UNCHANGED <<files, granted>>
     \/ /\ startPc = WriteAt[file]
        /\ files' = [files EXCEPT ![home_dir][file] = generated]  \* save_string
        /\ AfterSave(file) /\ UNCHANGED granted

\* Written with the right to overwrite, whether or not the key was found.
program_action_set_IDI ==
  /\ UNCHANGED <<cmdline, creds, home_dir, have_keys, identity,
                 generated, starts, granted, firstId>>
  /\ \/ /\ startPc = "prepare_IDI" /\ Truncated("IDI")
        /\ Goto("write_IDI")
     \/ /\ startPc = "write_IDI" /\ files' = [files EXCEPT ![home_dir].IDI = 1]
        /\ Goto("configure_mykey")

-----------------------------------------------------------------------------
\* From the keys to the main loop.

\* The tunserver reads its peers here, the newloop after it has dropped NET_ADMIN.
use_options_peerref ==
  /\ startPc = "peers"
  /\ UNCHANGED <<cmdline, creds, home_dir, have_keys, identity>>
  /\ IF ~cmdline.newloop /\ cmdline.peer = "bad" THEN ErrorExit
     ELSE Goto("prepare_socket")

\* Needs NET_ADMIN, and may fail all the same.
prepare_socket ==
  /\ startPc = "prepare_socket"
  /\ UNCHANGED <<cmdline, creds, home_dir, have_keys, identity>>
  /\ \/ /\ "NET_ADMIN" \in creds.caps.eff
        /\ Goto("after_tuntap")
     \/ IF cmdline.newloop THEN StdException ELSE ErrorExit

insecure == cmdline.insecure_cap /\ ~cmdline.newloop

run ==
  /\ UNCHANGED <<cmdline, home_dir, have_keys, identity>>
  /\ \/ /\ startPc = "after_tuntap"
        /\ IF insecure THEN Goto("before_mainloop") /\ UNCHANGED creds
           ELSE drop_privileges_after_tuntap("before_mainloop")
     \/ /\ startPc = "before_mainloop"
        /\ IF cmdline.newloop /\ cmdline.peer = "bad" THEN ErrorExit /\ UNCHANGED creds
           ELSE
                /\ IF insecure THEN Goto("verify") /\ UNCHANGED creds
                   ELSE drop_privileges_before_mainloop(IF cmdline.newloop THEN "loop" ELSE "verify")
     \/ /\ startPc = "verify" /\ UNCHANGED creds
        /\ verify_privileges_are_as_for_mainloop

\* The loop runs, and ends when it is told to.
LoopStep ==
  /\ startPc = "loop"
  /\ firstId' = IF firstId[home_dir] = 0 THEN [firstId EXCEPT ![home_dir] = identity.pub] ELSE firstId
  /\ MainReturns(0)
  /\ UNCHANGED <<cmdline, creds, home_dir, have_keys, identity, files, generated, starts, granted>>

Quiet == /\ \/ drop_root \/ drop_privileges_on_startup \/ main_early \/ init_library_sodium
            \/ options_commands_run \/ main_execution \/ programtask_load_my_keys \/ ConfigureStep
            \/ use_options_peerref \/ prepare_socket \/ run
         /\ UNCHANGED <<files, generated, starts, granted, firstId>>

StartNext ==
  \/ StartProcess \/ Gone \/ Quiet \/ create_keys
  \/ \E file \in {"PRV", "pub"} : SaveKey(file)
  \/ program_action_set_IDI \/ LoopStep

-----------------------------------------------------------------------------
StartTypeOK ==
  /\ cmdline \in CommandLines /\ home_dir \in Homes /\ have_keys \in BOOLEAN
  /\ creds.uid \in {0, 1} /\ \A a \in Areas : creds.caps[a] \subseteq Caps
  /\ \A h \in Homes : \A f \in {"PRV", "pub", "IDI"} : files[h][f] \in Absent .. MaxGen
  /\ generated \in 0 .. MaxGen /\ starts \in 0 .. MaxStart /\ granted \subseteq Homes
  /\ exitcode \in {NoCode, 0, 1, 2, 134}

\* However the program was started and whatever failed on the way, the tunserver
\* is in its main loop only without capabilities and without the user id of root
\* (drop_root goes on as root when sudo is not set up; verify_privileges is what
\* stops it).
LoopIsUnprivileged ==
  startPc = "loop" /\ ~cmdline.newloop =>
    ~have_any_cap /\ creds.uid # 0 /\ creds.euid # 0

\* A node that once ran with an identity runs with that one ever after, over kills
\* at any step of making or saving keys, unless the user allowed an overwrite; and
\* the private and the public key it runs with always belong together.
IdentityKept ==
  startPc = "loop" =>
    /\ identity.PRV = identity.pub /\ identity.pub # 0
    /\ firstId[home_dir] # 0 /\ home_dir \notin granted => identity.pub = firstId[home_dir]
=============================================================================
