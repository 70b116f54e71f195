------------------------------- MODULE MCLSM --------------------------------
(* The modules of the configuration: capability, Yama, then SELinux. *)
EXTENDS LSM

MinorModules == <<"capability", "yama">>
MajorModules == {"selinux"}

\* Hooks of commoncap.c and yama_lsm.c; SELinux is taken to have every hook.
Hooks == [capability |-> {"settime", "capable", "ptrace_access_check", "bprm_set_creds",
                          "inode_getsecurity", "mmap_file", "mmap_addr", "task_fix_setuid",
                          "inode_need_killpriv", "inode_killpriv", "task_setnice"},
          yama |-> {"ptrace_access_check", "ptrace_traceme", "task_free"},
          selinux |-> Hook]
=============================================================================
