---------------------------- MODULE StartupProofs ----------------------------
(***************************************************************************)
(* PrivilegesSound of Startup for every set of user ids, every             *)
(* configuration over it and every set of steps that may fail.             *)
(***************************************************************************)
EXTENDS Startup, TLAPS

(* What PrivilegesSound leaves out and its induction needs: what the        *)
(* process is at each step on the way to setup_listener().                  *)
BeforeSetUid == {"init_tls", "chroot", "setgroups", "setgid", "setuid"}

(* Until setuid the process is who started it and nothing restricts it.     *)
UndroppedYet ==
    /\ step \in BeforeSetUid => uid = conf.start_uid /\ security_ok
    /\ step \in BeforeSetUid \cup {"seccomp"} => ~seccomp
    /\ step \in {"init_tls", "chroot"} => chrooted = FALSE

(* RootStepsBeforeDrop, each part from the step that establishes it; a step *)
(* not reached yet has not failed.                                          *)
RootStepsTaken ==
    conf.start_uid = 0 =>
        /\ step = "init_tls" => tls_enabled = conf.tls /\ "init_tls" \notin faulted
        /\ step # "init_tls" => tls_enabled = (conf.tls /\ "init_tls" \notin faulted)
        /\ step \in {"init_tls", "chroot"} => "chroot" \notin faulted
        /\ step \notin {"init_tls", "chroot"} =>
               chrooted = (conf.chroot_enabled /\ "chroot" \notin faulted)
        /\ step \notin {"init_tls", "chroot", "setgroups"} /\ conf.drop_gid >= 0 =>
               ("setgroups" \notin faulted => groups = {})
        /\ step \notin {"init_tls", "chroot", "setgroups", "setgid"} /\ conf.drop_gid >= 0 =>
               ("setgid" \notin faulted => gid = conf.drop_gid)

(* RootOnlyIfSetUidFailed from setuid on.                                   *)
RootGone ==
    /\ seccomp => uid # 0
    /\ step \notin BeforeSetUid /\ conf.drop_uid > 0 /\ uid = 0 => "setuid" \in faulted
    /\ ~security_ok => conf.drop_uid = 0

StartupInv == TypeOK /\ UndroppedYet /\ RootStepsTaken /\ RootGone

(* The strengthened invariant holds before the first call of start().       *)
LEMMA StartupInit == Init => StartupInv
  BY StartupAssumption
  DEF Init, StartupInv, TypeOK, UndroppedYet, RootStepsTaken, RootGone, Configs,
      Following, BeforeSetUid

(* Every step of start() keeps the values in their types.                   *)
LEMMA StartupTyped == TypeOK /\ [Next]_vars => TypeOK'
<1>. SUFFICES ASSUME TypeOK, [Next]_vars PROVE TypeOK'
  OBVIOUS
<1>. USE StartupAssumption DEF TypeOK, Configs, Following, Advance, Attempt
<1>1. CASE InitTls
  BY <1>1 DEF InitTls
<1>2. CASE Chroot
  BY <1>2 DEF Chroot
<1>9. CASE SetGroups
  BY <1>9 DEF SetGroups
<1>0. /\ conf.drop_gid >= 0 => conf.drop_gid \in Uids
      /\ conf.drop_uid >= 0 => conf.drop_uid \in Uids
  OBVIOUS
<1>3. CASE SetGid
  <2>1. gid' \in Uids
    BY <1>0, <1>3 DEF SetGid
  <2>. QED
    BY <1>3, <2>1 DEF SetGid
<1>4. CASE SetUid
  <2>1. uid' \in Uids
    BY <1>0, <1>4 DEF SetUid
  <2>2. step' \in {"seccomp", "bind"} /\ security_ok' \in BOOLEAN /\ faulted' \subseteq DOMAIN Following
    BY <1>4 DEF SetUid
  <2>. QED
    BY <1>4, <2>1, <2>2 DEF SetUid
<1>5. CASE InstallSeccomp
  BY <1>5 DEF InstallSeccomp
<1>6. CASE Bind
  BY <1>6 DEF Bind
<1>7. CASE SetupEpoll
  BY <1>7 DEF SetupEpoll
<1>8. CASE UNCHANGED vars
  BY <1>8 DEF vars
<1>. QED
  BY <1>1, <1>2, <1>3, <1>4, <1>5, <1>6, <1>7, <1>8, <1>9 DEF Next, Settled

(* Every step of start() preserves the strengthened invariant.              *)
LEMMA StartupStep == StartupInv /\ [Next]_vars => StartupInv'
<1>. SUFFICES ASSUME StartupInv, [Next]_vars PROVE StartupInv'
  OBVIOUS
<1>0. TypeOK /\ TypeOK'
  BY StartupTyped DEF StartupInv
<1>. USE <1>0 DEF BeforeSetUid, Following, Advance, Attempt
<1>1. CASE InitTls
  BY <1>1 DEF InitTls, StartupInv, TypeOK, Configs, UndroppedYet, RootStepsTaken, RootGone
<1>2. CASE Chroot
  BY <1>2 DEF Chroot, StartupInv, TypeOK, Configs, UndroppedYet, RootStepsTaken, RootGone
<1>9. CASE SetGroups
  BY <1>9 DEF SetGroups, StartupInv, TypeOK, Configs, UndroppedYet, RootStepsTaken, RootGone
<1>3. CASE SetGid
  BY <1>3 DEF SetGid, StartupInv, TypeOK, Configs, UndroppedYet, RootStepsTaken, RootGone
<1>4. CASE SetUid
  <2>1. conf' = conf /\ step = "setuid" /\ step' \in {"seccomp", "bind"}
    BY <1>4 DEF SetUid
  <2>2. UndroppedYet'
    BY <1>4, <2>1 DEF SetUid, StartupInv, UndroppedYet
  <2>3. RootStepsTaken'
    BY <1>4, <2>1 DEF SetUid, StartupInv, RootStepsTaken, TypeOK
  <2>4. RootGone'
    <3>1. ~seccomp' /\ security_ok
      BY <1>4, <2>1 DEF SetUid, StartupInv, UndroppedYet
    <3>2. conf.drop_uid > 0 /\ uid' = 0 => "setuid" \in faulted'
      <4>1. conf.drop_uid \in Int
        <5>1. conf.drop_uid \in Uids \cup {-1}
          BY DEF TypeOK, Configs
        <5>. QED
          <6>1. -1 \in Int
            OBVIOUS
          <6>2. \A u \in Uids : u \in Int
            BY StartupAssumption
          <6>. QED
            BY <5>1, <6>1, <6>2
      <4>2. conf.drop_uid >= 0 /\ "setuid" \notin faulted' =>
                uid' = conf.drop_uid \/ (uid # 0 /\ uid' = uid)
        BY <1>4 DEF SetUid
      <4>. QED
        BY <4>1, <4>2
    <3>3. ~security_ok' => conf.drop_uid = 0
      <4>1. security_ok' = security_ok \/ (security_ok' = (uid' # 0) /\ uid' = conf.drop_uid)
        BY <1>4 DEF SetUid
      <4>. QED
        BY <3>1, <4>1
    <3>. QED
      BY <2>1, <3>1, <3>2, <3>3 DEF RootGone
  <2>. QED
    BY <2>2, <2>3, <2>4 DEF StartupInv
<1>5. CASE InstallSeccomp
  BY <1>5 DEF InstallSeccomp, StartupInv, TypeOK, Configs, UndroppedYet, RootStepsTaken, RootGone
<1>6. CASE Bind
  BY <1>6 DEF Bind, StartupInv, TypeOK, Configs, UndroppedYet, RootStepsTaken, RootGone
<1>7. CASE SetupEpoll
  BY <1>7 DEF SetupEpoll, StartupInv, TypeOK, Configs, UndroppedYet, RootStepsTaken, RootGone
<1>8. CASE UNCHANGED vars
  BY <1>8 DEF vars, StartupInv, UndroppedYet, RootStepsTaken, RootGone
<1>. QED
  BY <1>1, <1>2, <1>3, <1>4, <1>5, <1>6, <1>7, <1>8, <1>9 DEF Next, Settled

(* Whoever starts the server and whichever calls fail: apply_security()     *)
(* takes root's steps as root, a failed call costs its own effect only, and *)
(* a server told to drop root is root afterwards only if setuid failed.     *)
THEOREM StartupPrivileges == Spec => []PrivilegesSound
<1>1. StartupInv => PrivilegesSound
  BY DEF StartupInv, PrivilegesSound, TypeOK, RootStepsTaken, RootStepsBeforeDrop,
         RootGone, RootOnlyIfSetUidFailed, BeforeSetUid, Secured
<1>2. QED
  BY StartupInit, StartupStep, <1>1, PTL DEF Spec
=============================================================================
