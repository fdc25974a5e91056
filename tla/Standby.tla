------------------------------ MODULE Standby ------------------------------
(***************************************************************************)
(* kmorphd as the successor's first process: main() up to the epoll loop,  *)
(* init_mount_filesystems() (kmorphd/init.c) and standby_enter()           *)
(* (kmorphd/standby.c), on a mount tree in which every call may fail.  A   *)
(* place is a directory of a mounted filesystem; paths are looked up from  *)
(* the process's root, through whatever is mounted on the way.             *)
(***************************************************************************)
EXTENDS Integers, Sequences, SequencesExt, TLC

CONSTANTS MAX_FAILURES   \* calls that fail without the mount tree's doing

VARIABLES pc, n,      \* where kmorphd stands, and its loop counter
          ret,        \* what standby_enter() returns
          mounts,     \* where each mounted filesystem is mounted
          dirs,       \* the directories that exist
          files,      \* the identity files, with their contents
          root, cwd,  \* of the process
          pid1,       \* what the first process is
          identity,   \* what load_network() found
          failed      \* the calls that failed

standbyVars == <<pc, n, ret, mounts, dirs, files, root, cwd, pid1, identity, failed>>

pseudo_fs == <<"proc", "sys", "dev", "run">>
Pseudo == Range(pseudo_fs)

STANDBY_ROOT == <<"standby">>
STANDBY_LAYERS == <<"run", "kmorph", "root">>
STANDBY_NETWORK == <<"run", "kmorph", "network">>
NETSNAP_PATH == <<"etc", "network">>
layer_dirs == <<<<"run", "kmorph">>, STANDBY_LAYERS, STANDBY_LAYERS \o <<"image">>,
                STANDBY_LAYERS \o <<"upper">>, STANDBY_LAYERS \o <<"work">>, STANDBY_ROOT>>
-----------------------------------------------------------------------------
(* The mount tree.                                                         *)

Place(on, dir) == [on |-> on, dir |-> dir]

\* What is mounted on a place covers it.
Through(p) == IF \E f \in DOMAIN mounts : mounts[f] = p
                THEN Place(CHOOSE f \in DOMAIN mounts : mounts[f] = p, <<>>)
                ELSE p

Lookup(path) == FoldLeft(LAMBDA p, name : Through(Place(p.on, Append(p.dir, name))),
                         Place(root, <<>>), path)

Exists(p) == p.dir = <<>> \/ p \in dirs
IsMount(p) == p.dir = <<>> /\ p.on # "rootfs"

\* mount() of a new filesystem f, mount() with MS_MOVE, umount() and mkdir().
CanMount(path) == Exists(Lookup(path))
Mount(f, path) == mounts' = (f :> Lookup(path)) @@ mounts

CanMove(p, path) == IsMount(p) /\ Exists(Lookup(path))
Move(p, path) == mounts' = [mounts EXCEPT ![p.on] = Lookup(path)]

CanUmount(path) == LET p == Lookup(path)
                   IN  IsMount(p) /\ \A f \in DOMAIN mounts : mounts[f].on # p.on
Umount(path) == mounts' = [f \in DOMAIN mounts \ {Lookup(path).on} |-> mounts[f]]

CanMkdir(path) == Exists(Lookup(Front(path)))
Mkdir(path) == dirs' = dirs \cup {Lookup(path)}

\* A call fails where the tree does not allow it, or for a reason of its own.
Fails(possible) == \/ ~possible /\ UNCHANGED failed
                   \/ /\ possible /\ Len(failed) < MAX_FAILURES
                      /\ failed' = Append(failed, pc)
Works(possible) == possible /\ UNCHANGED failed

\* The step of the program that comes next.
Goto(label) == pc' = label /\ n' = 1
Loop(max, label) == IF n < max THEN pc' = pc /\ n' = n + 1 ELSE Goto(label)
-----------------------------------------------------------------------------
(* main() and init_mount_filesystems().                                    *)

Forwarded == Place("rootfs", NETSNAP_PATH)

\* The initramfs has the identity arm forwarded, where it could collect one; the
\* image may carry one of its own.
StandbyInit ==
  /\ pc = "mkdirfs" /\ n = 1
  /\ ret = -1
  /\ mounts = <<>>
  /\ dirs = {Place("overlay", <<f>>) : f \in Pseudo}
  /\ files \in {armed @@ own : armed \in {<<>>, Forwarded :> "armed"},
                                own \in {<<>>, Place("overlay", NETSNAP_PATH) :> "image's"}}
  /\ root = "rootfs" /\ cwd = "rootfs"
  /\ pid1 = "kmorphd"
  /\ identity = "none"
  /\ failed = <<>>

\* Each filesystem on its own: one that does not mount is left out.
MkdirFs ==
  /\ pc = "mkdirfs"
  /\ \/ Works(CanMkdir(<<pseudo_fs[n]>>)) /\ Mkdir(<<pseudo_fs[n]>>) /\ pc' = "mountfs" /\ n' = n
     \/ /\ Fails(CanMkdir(<<pseudo_fs[n]>>)) /\ UNCHANGED dirs
        /\ IF n < Len(pseudo_fs) THEN pc' = pc /\ n' = n + 1 ELSE Goto("access")
  /\ UNCHANGED <<ret, mounts, files, root, cwd, pid1, identity>>

MountFs ==
  /\ pc = "mountfs"
  /\ \/ Works(CanMount(<<pseudo_fs[n]>>)) /\ Mount(pseudo_fs[n], <<pseudo_fs[n]>>)
     \/ Fails(CanMount(<<pseudo_fs[n]>>)) /\ UNCHANGED mounts
  /\ IF n < Len(pseudo_fs) THEN pc' = "mkdirfs" /\ n' = n + 1 ELSE Goto("access")
  /\ UNCHANGED <<ret, dirs, files, root, cwd, pid1, identity>>

\* access(STANDBY_IMAGE): images without one go on in the initramfs.
AccessImage == /\ pc = "access"
               /\ Goto("mkdir") \/ Goto("setup")
               /\ UNCHANGED <<ret, mounts, dirs, files, root, cwd, pid1, identity, failed>>
-----------------------------------------------------------------------------
(* standby_enter().                                                        *)

LayerDir == /\ pc = "mkdir"
            /\ \/ /\ Works(CanMkdir(layer_dirs[n])) /\ Mkdir(layer_dirs[n])
                  /\ Loop(Len(layer_dirs), "image")
               \/ Fails(CanMkdir(layer_dirs[n])) /\ Goto("setup") /\ UNCHANGED dirs
            /\ UNCHANGED <<ret, mounts, files, root, cwd, pid1, identity>>

IMAGE == STANDBY_LAYERS \o <<"image">>

MountImage == /\ pc = "image"
              /\ \/ Works(CanMount(IMAGE)) /\ Mount("image", IMAGE) /\ Goto("overlay")
                 \/ Fails(CanMount(IMAGE)) /\ Goto("setup") /\ UNCHANGED mounts
              /\ UNCHANGED <<ret, dirs, files, root, cwd, pid1, identity>>

\* An overlay that does not mount releases the image.
MountOverlay ==
  /\ pc = "overlay"
  /\ \/ /\ Works(CanMount(STANDBY_ROOT)) /\ Mount("overlay", STANDBY_ROOT)
        /\ Goto("copyconf")
     \/ Fails(CanMount(STANDBY_ROOT)) /\ Goto("umountimage") /\ UNCHANGED mounts
  /\ UNCHANGED <<ret, dirs, files, root, cwd, pid1, identity>>

CopyConfig == /\ pc = "copyconf"
              /\ \/ Works(TRUE) /\ Goto("copynet")
                 \/ Fails(TRUE) /\ Goto("umountroot")
              /\ UNCHANGED <<ret, mounts, dirs, files, root, cwd, pid1, identity>>

\* A failed copy of the identity is only warned about; sys_copy() may have
\* made the file by then.
CopyNetwork ==
  /\ pc = "copynet"
  /\ \/ /\ Works(Forwarded \in DOMAIN files)
        /\ files' = (Lookup(STANDBY_NETWORK) :> "armed") @@ files
     \/ /\ Fails(Forwarded \in DOMAIN files)
        /\ \/ UNCHANGED files
           \/ /\ Forwarded \in DOMAIN files
              /\ files' = (Lookup(STANDBY_NETWORK) :> "torn") @@ files
  /\ Goto("move")
  /\ UNCHANGED <<ret, mounts, dirs, root, cwd, pid1, identity>>

moved_path(f) == STANDBY_ROOT \o <<f>>

\* A mutant of move_pseudo_fs(): what was moved is not moved back.
LeavesMoved ==
  /\ pc = "move"
  /\ LET f == pseudo_fs[n]
         can == CanMove(Lookup(<<f>>), moved_path(f))
     IN  \/ Works(can) /\ Move(Lookup(<<f>>), moved_path(f)) /\ Loop(Len(pseudo_fs), "chdir")
         \/ Fails(can) /\ UNCHANGED mounts /\ Goto("umountroot")
  /\ UNCHANGED <<ret, dirs, files, root, cwd, pid1, identity>>

\* move_pseudo_fs(): those before the one that failed are moved back.
MovePseudoFs ==
  /\ pc = "move"
  /\ LET f == pseudo_fs[n]
         can == CanMove(Lookup(<<f>>), moved_path(f))
     IN  \/ Works(can) /\ Move(Lookup(<<f>>), moved_path(f)) /\ Loop(Len(pseudo_fs), "chdir")
         \/ /\ Fails(can) /\ UNCHANGED mounts
            /\ pc' = IF n = 1 THEN "umountroot" ELSE "moveback"
            /\ n' = IF n = 1 THEN 1 ELSE n - 1
  /\ UNCHANGED <<ret, dirs, files, root, cwd, pid1, identity>>

\* make_root(): into the image, the image onto the root, the root into it.
ChdirImage == /\ pc = "chdir"
              /\ \/ Works(CanMount(STANDBY_ROOT)) /\ cwd' = Lookup(STANDBY_ROOT).on /\ Goto("moveroot")
                 \/ Fails(CanMount(STANDBY_ROOT)) /\ UNCHANGED cwd /\ Goto("chdirback")
              /\ UNCHANGED <<ret, mounts, dirs, files, root, pid1, identity>>

MoveRoot == /\ pc = "moveroot"
            /\ \/ /\ Works(CanMove(Place(cwd, <<>>), <<>>)) /\ Move(Place(cwd, <<>>), <<>>)
                  /\ Goto("chroot")
               \/ Fails(CanMove(Place(cwd, <<>>), <<>>)) /\ UNCHANGED mounts /\ Goto("chdirback")
            /\ UNCHANGED <<ret, dirs, files, root, cwd, pid1, identity>>

ChdirBack == /\ pc = "chdirback"
             /\ \/ Works(TRUE) /\ cwd' = root
                \/ Fails(TRUE) /\ UNCHANGED cwd
             /\ pc' = "moveback" /\ n' = Len(pseudo_fs)
             /\ UNCHANGED <<ret, mounts, dirs, files, root, pid1, identity>>

Chroot == /\ pc = "chroot"
          /\ \/ Works(TRUE) /\ root' = cwd /\ Goto("chdirroot")
             \/ Fails(TRUE) /\ UNCHANGED root /\ pc' = "moveback" /\ n' = Len(pseudo_fs)
          /\ UNCHANGED <<ret, mounts, dirs, files, cwd, pid1, identity>>

ChdirRoot == /\ pc = "chdirroot"
             /\ \/ Works(TRUE) /\ cwd' = root /\ Goto("fork")
                \/ Fails(TRUE) /\ UNCHANGED cwd /\ pc' = "moveback" /\ n' = Len(pseudo_fs)
             /\ UNCHANGED <<ret, mounts, dirs, files, root, pid1, identity>>

\* move_back(), last first; errors are ignored.
MoveBack ==
  /\ pc = "moveback"
  /\ LET p == Lookup(moved_path(pseudo_fs[n]))
         can == CanMove(p, <<pseudo_fs[n]>>)
     IN  \/ Works(can) /\ Move(p, <<pseudo_fs[n]>>)
         \/ Fails(can) /\ UNCHANGED mounts
  /\ IF n > 1 THEN pc' = pc /\ n' = n - 1 ELSE Goto("umountroot")
  /\ UNCHANGED <<ret, dirs, files, root, cwd, pid1, identity>>

\* The label unmount.
UmountRoot == /\ pc = "umountroot"
              /\ \/ Works(CanUmount(STANDBY_ROOT)) /\ Umount(STANDBY_ROOT)
                 \/ Fails(CanUmount(STANDBY_ROOT)) /\ UNCHANGED mounts
              /\ Goto("umountimage")
              /\ UNCHANGED <<ret, dirs, files, root, cwd, pid1, identity>>

UmountImage == /\ pc = "umountimage"
               /\ \/ Works(CanUmount(IMAGE)) /\ Umount(IMAGE)
                  \/ Fails(CanUmount(IMAGE)) /\ UNCHANGED mounts
               /\ Goto("setup")
               /\ UNCHANGED <<ret, dirs, files, root, cwd, pid1, identity>>

\* fork(): the child goes on as kmorphd, the first process executes the image's
\* init or idles; without a child kmorphd stays the first process.
Fork == /\ pc = "fork"
        /\ \/ Works(TRUE) /\ ret' = 0 /\ pid1' \in {"init", "idle"}
           \/ Fails(TRUE) /\ ret' = 1 /\ UNCHANGED pid1
        /\ Goto("setup")
        /\ UNCHANGED <<mounts, dirs, files, root, cwd, identity>>
-----------------------------------------------------------------------------
(* The rest of main(): the configuration, load_network(), daemon_setup().  *)

\* A mutant of load_network(): the image's own file is looked for first.
OwnFirst == <<NETSNAP_PATH, STANDBY_NETWORK>>

\* load_network(): the first file there is, malformed or not.
NetworkPaths == <<STANDBY_NETWORK, NETSNAP_PATH>>

\* devtree_has_host_tree() reads /proc, mkfs_mount() works below /sys.
HostTree == \A f \in {"proc", "sys"} : Lookup(<<f>>) = Place(f, <<>>)

Setup ==
  /\ pc = "setup"
  /\ LET there == {k \in 1..Len(NetworkPaths) : Lookup(NetworkPaths[k]) \in DOMAIN files}
         first == CHOOSE k \in there : \A m \in there : k <= m
     IN  identity' = IF there = {} THEN "none" ELSE files[Lookup(NetworkPaths[first])]
  /\ \/ Works(HostTree) /\ Goto("running") /\ UNCHANGED pid1
     \/ Fails(HostTree) /\ Goto("exited") /\ pid1' = IF ret = 0 THEN pid1 ELSE "exited"
  /\ UNCHANGED <<ret, mounts, dirs, files, root, cwd>>

StandbyStep ==
  \/ MkdirFs \/ MountFs \/ AccessImage \/ LayerDir \/ MountImage \/ MountOverlay
  \/ CopyConfig \/ CopyNetwork \/ MovePseudoFs \/ ChdirImage \/ MoveRoot \/ ChdirBack
  \/ Chroot \/ ChdirRoot \/ MoveBack \/ UmountRoot \/ UmountImage \/ Fork \/ Setup

StandbySpec == StandbyInit /\ [][StandbyStep]_standbyVars
-----------------------------------------------------------------------------
(* Properties.                                                             *)

Entered == pc \in {"setup", "running", "exited"}

\* standby.h "-errno with everything put back when the image did not become the
\* root": after any one failure up to the move onto the root, the pseudo
\* filesystems are where they were and neither the image nor its root is left.
PutBack ==
  /\ Entered /\ ret < 0 /\ Len(failed) <= 1
  /\ \A k \in 1..Len(failed) : failed[k] \notin {"chroot", "chdirroot"}
  => /\ root = "rootfs" /\ cwd = "rootfs"
     /\ DOMAIN mounts \subseteq Pseudo
     /\ \A f \in Pseudo : f \in DOMAIN mounts \/ \E k \in 1..Len(failed) : failed[k] \in {"mkdirfs", "mountfs"}
     /\ \A f \in DOMAIN mounts : Lookup(<<f>>) = Place(f, <<>>)

\* load_network() "The standby root keeps the forwarded identity in /run": the
\* identity arm sent is used in either root, unless its copy failed.
IdentityReaches ==
  /\ pc = "running" /\ Forwarded \in DOMAIN files
  /\ (\A k \in 1..Len(failed) : failed[k] # "copynet") /\ Len(failed) <= 1
  => identity = "armed"
=============================================================================
