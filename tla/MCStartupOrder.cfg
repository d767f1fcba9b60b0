SPECIFICATION Spec
CONSTANTS
    Uids = {0, 1000, 65534}
    Faults = {"init_tls", "chroot", "setgroups", "setgid", "setuid", "seccomp", "bind", "epoll"}
INVARIANTS
    BindBeforeDrop
