------------------------------- MODULE Startup -------------------------------
(***************************************************************************)
(* Server::start() up to "Server ready": TLS initialisation,               *)
(* apply_security() and setup_listener() of src/server.cpp, in the order   *)
(* of the calls, over the parts of the kernel they depend on: only root    *)
(* may chroot, change its ids, bind a privileged port or read a private    *)
(* key that is not readable for all (key_for_all), and a seccomp filter    *)
(* fails every system call it does not list.                               *)
(***************************************************************************)
EXTENDS Integers

CONSTANTS
    Uids,     \* user ids the process may be started as or told to drop to
    Faults    \* steps that may fail for a reason outside the program

VARIABLES
    conf,            \* the configuration start() was given
    step,
    uid, gid,
    groups,          \* supplementary groups
    chrooted,
    tls_enabled,     \* config_.tls_enabled
    document_root,   \* config_.document_root
    sigpipe_ignored, seccomp,
    security_ok,     \* what apply_security() returned
    faulted          \* history: the steps that failed for an outside reason

vars == <<conf, step, uid, gid, groups, chrooted, tls_enabled, document_root,
          sigpipe_ignored, seccomp, security_ok, faulted>>

ASSUME StartupAssumption == 0 \in Uids /\ Uids \subseteq Nat

Configs == [start_uid : Uids, tls : BOOLEAN, chroot_enabled : BOOLEAN,
            drop_uid : Uids \cup {-1}, drop_gid : Uids \cup {-1},
            privileged_port : BOOLEAN, key_for_all : BOOLEAN]

(* The system calls the filter of apply_security() allows.                  *)
Allowlist ==
    {"read", "write", "close", "sendto", "recvfrom", "sendmsg", "recvmsg", "accept4",
     "socket", "connect", "setsockopt", "getsockopt", "shutdown",
     "epoll_wait", "epoll_ctl", "epoll_pwait", "poll",
     "openat", "fstat", "newfstatat", "lseek", "sendfile", "getdents64",
     "mmap", "munmap", "mprotect", "brk", "mremap",
     "futex", "clone", "clone3", "set_robust_list", "rseq",
     "clock_gettime", "gettimeofday", "nanosleep", "clock_nanosleep",
     "rt_sigaction", "rt_sigprocmask", "rt_sigreturn",
     "io_uring_setup", "io_uring_enter", "io_uring_register",
     "exit", "exit_group", "fcntl", "ioctl", "getrandom", "getpid", "gettid", "tgkill",
     "writev", "readv", "pread64", "pwrite64", "madvise", "getuid", "getgid"}

Permitted(syscalls) == seccomp => syscalls \subseteq Allowlist

(* Fault: the user is dropped before the group. *)
UserBeforeGroup ==
    [init_tls |-> "chroot", chroot |-> "setuid", setuid |-> "setgroups",
     setgroups |-> "setgid", setgid |-> "seccomp", seccomp |-> "bind",
     bind |-> "epoll", epoll |-> "serving"]

(* The order in which start() and apply_security() take their steps.        *)
Following ==
    [init_tls |-> "chroot", chroot |-> "setgroups", setgroups |-> "setgid",
     setgid |-> "setuid", setuid |-> "seccomp", seccomp |-> "bind",
     bind |-> "epoll", epoll |-> "serving"]

Advance == step' = Following[step]

Init ==
    /\ conf \in Configs
    /\ step = "init_tls"
    /\ uid = conf.start_uid
    /\ gid = conf.start_uid
    /\ groups \in {{}, {conf.start_uid}}
    /\ chrooted = FALSE
    /\ tls_enabled = conf.tls
    /\ document_root = "htdocs"
    /\ sigpipe_ignored = FALSE
    /\ seccomp = FALSE
    /\ security_ok = TRUE
    /\ faulted = {}

(* A step works if the kernel lets it, unless a fault strikes.              *)
Attempt(name, allowed, works, fails) ==
    \/ allowed /\ works /\ UNCHANGED faulted
    \/ ~allowed /\ fails /\ UNCHANGED faulted
    \/ name \in Faults /\ fails /\ faulted' = faulted \cup {name}

(* tls_.init; if it fails the server continues without TLS.                 *)
InitTls ==
    /\ step = "init_tls"
    /\ IF conf.tls
       THEN Attempt("init_tls", uid = 0 \/ conf.key_for_all, UNCHANGED tls_enabled, tls_enabled' = FALSE)
       ELSE UNCHANGED <<tls_enabled, faulted>>
    /\ Advance
    /\ UNCHANGED <<conf, uid, gid, groups, chrooted, document_root,
                   sigpipe_ignored, seccomp, security_ok>>

Chroot ==
    /\ step = "chroot"
    /\ IF conf.chroot_enabled
       THEN Attempt("chroot", uid = 0,
                    chrooted' = TRUE /\ document_root' = "/",
                    UNCHANGED <<chrooted, document_root>>)
       ELSE UNCHANGED <<chrooted, document_root, faulted>>
    /\ Advance
    /\ UNCHANGED <<conf, uid, gid, groups, tls_enabled, sigpipe_ignored, seccomp,
                   security_ok>>

(* setgroups(0, nullptr): if it fails the group is still changed ...        *)
SetGroups ==
    /\ step = "setgroups"
    /\ IF conf.drop_gid >= 0
       THEN Attempt("setgroups", uid = 0, groups' = {}, UNCHANGED groups)
       ELSE UNCHANGED <<groups, faulted>>
    /\ Advance
    /\ UNCHANGED <<conf, uid, gid, chrooted, tls_enabled, document_root,
                   sigpipe_ignored, seccomp, security_ok>>

(* ... by setgid.                                                           *)
SetGid ==
    /\ step = "setgid"
    /\ IF conf.drop_gid >= 0
       THEN Attempt("setgid", uid = 0 \/ gid = conf.drop_gid,
                    gid' = conf.drop_gid, UNCHANGED gid)
       ELSE UNCHANGED <<gid, faulted>>
    /\ Advance
    /\ UNCHANGED <<conf, uid, groups, chrooted, tls_enabled, document_root,
                   sigpipe_ignored, seccomp, security_ok>>

(* setuid, and the attempt to regain root: if that works apply_security()   *)
(* returns false at once, and start(), which ignores what it returns, goes  *)
(* on with setup_listener().                                                *)
SetUid ==
    /\ step = "setuid"
    /\ IF conf.drop_uid >= 0
       THEN Attempt("setuid", uid = 0 \/ uid = conf.drop_uid,
                    /\ uid' = conf.drop_uid
                    /\ security_ok' = (uid' # 0)
                    /\ step' = IF uid' = 0 THEN "bind" ELSE Following[step],
                    Advance /\ UNCHANGED <<uid, security_ok>>)
       ELSE Advance /\ UNCHANGED <<uid, security_ok, faulted>>
    /\ UNCHANGED <<conf, gid, groups, chrooted, tls_enabled, document_root,
                   sigpipe_ignored, seccomp>>

(* SIGPIPE is ignored, and the filter installed if privileges were dropped. *)
InstallSeccomp ==
    /\ step = "seccomp"
    /\ sigpipe_ignored' = TRUE
    /\ IF conf.drop_uid >= 0
       THEN Attempt("seccomp", uid # 0, seccomp' = TRUE, UNCHANGED seccomp)
       ELSE UNCHANGED <<seccomp, faulted>>
    /\ Advance
    /\ UNCHANGED <<conf, uid, gid, groups, chrooted, tls_enabled, document_root,
                   security_ok>>

(* setup_listener(): socket, bind, listen ...                               *)
Bind ==
    /\ step = "bind"
    /\ Attempt("bind",
               /\ Permitted({"socket", "setsockopt", "bind", "listen", "fcntl"})
               /\ conf.privileged_port => uid = 0,
               Advance, step' = "failed")
    /\ UNCHANGED <<conf, uid, gid, groups, chrooted, tls_enabled, document_root,
                   sigpipe_ignored, seccomp, security_ok>>

(* ... then the epoll instance.                                             *)
SetupEpoll ==
    /\ step = "epoll"
    /\ Attempt("epoll", Permitted({"epoll_create1", "epoll_ctl"}),
               Advance, step' = "failed")
    /\ UNCHANGED <<conf, uid, gid, groups, chrooted, tls_enabled, document_root,
                   sigpipe_ignored, seccomp, security_ok>>

(* start() goes on with the event loop, or returns false.                   *)
Settled == step \in {"serving", "failed"} /\ UNCHANGED vars

Next ==
    \/ InitTls
    \/ Chroot
    \/ SetGroups
    \/ SetGid
    \/ SetUid
    \/ InstallSeccomp
    \/ Bind
    \/ SetupEpoll
    \/ Settled

Spec == Init /\ [][Next]_vars

-----------------------------------------------------------------------------
TypeOK ==
    /\ conf \in Configs
    /\ step \in DOMAIN Following \cup {"serving", "failed"}
    /\ uid \in Uids /\ gid \in Uids /\ groups \subseteq Uids
    /\ {chrooted, tls_enabled, sigpipe_ignored, seccomp, security_ok} \subseteq BOOLEAN
    /\ document_root \in {"htdocs", "/"}
    /\ faulted \subseteq DOMAIN Following

Secured == step \in {"bind", "epoll", "serving", "failed"}

(* Each step that needs root comes before root is given up, and one that    *)
(* fails costs itself only: of a start as root, once apply_security() has   *)
(* returned, the private key is loaded, the process confined to the         *)
(* document root and, if drop_gid is set, without supplementary groups and  *)
(* in the configured group, each unless that very call failed.              *)
RootStepsBeforeDrop ==
    Secured /\ conf.start_uid = 0 =>
        /\ tls_enabled = (conf.tls /\ "init_tls" \notin faulted)
        /\ chrooted = (conf.chroot_enabled /\ "chroot" \notin faulted)
        /\ conf.drop_gid >= 0 =>
              /\ "setgroups" \notin faulted => groups = {}
              /\ "setgid" \notin faulted => gid = conf.drop_gid

(* A server told to drop to another user is root once apply_security() has  *)
(* returned only if setuid itself failed, which is logged and no more: no   *)
(* failure of another step leaves it root.  The filter is never in force    *)
(* while the process is root, and the check for regaining root fires only   *)
(* where there was nothing to drop (start() would ignore it and serve).     *)
RootOnlyIfSetUidFailed ==
    /\ Secured /\ conf.drop_uid > 0 /\ uid = 0 => "setuid" \in faulted
    /\ seccomp => uid # 0
    /\ ~security_ok => conf.drop_uid = 0

(* apply_security() takes root's steps as root, none of them at the expense *)
(* of another, and what it keeps of root is what a failed call or the       *)
(* configuration (drop_uid or drop_gid -1) left it.                         *)
PrivilegesSound == TypeOK /\ RootStepsBeforeDrop /\ RootOnlyIfSetUidFailed

(* "This must happen AFTER bind(), TLS cert loading, and chroot()"          *)
(* (server.cpp:213): until the listener is bound the process has the ids it *)
(* was started with.                                                        *)
BindBeforeDrop ==
    step \in DOMAIN Following \ {"epoll"} => uid = conf.start_uid /\ gid = conf.start_uid
=============================================================================
