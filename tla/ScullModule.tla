----------------------------- MODULE ScullModule -----------------------------
(***************************************************************************)
(* The life of the FIFO driver as a kernel module: scull_init_module in    *)
(* the steps other processes can see, its failures, which all go through   *)
(* scull_cleanup_module, and unloading.  ScullFifo is the driver between   *)
(* SetUp and Unload.                                                       *)
(*                                                                         *)
(* A kmalloc that fails is not reported: result still has the value of     *)
(* cdev_add, so that the module stays loaded with everything taken down    *)
(* ("hollow") and is cleaned up a second time when it is unloaded.  A call *)
(* that reaches the driver while it has no buffer makes the kernel follow  *)
(* a null pointer ("oops"); the module takes no step after that.           *)
(***************************************************************************)
EXTENDS ScullFifo

VARIABLES
    driver,         \* how far the module has come
    held,           \* what it has taken from the kernel
    stray           \* what it has given back without having it, in this load

moduleVars == <<driver, held, stray>>

Stages    == {"out", "registered", "live", "ready", "hollow", "oops"}
Resources == {"region", "cdev", "buffer"}

Stage(from, to) == driver = from /\ driver' = to

-----------------------------------------------------------------------------

(* alloc_chrdev_region; if it fails nothing has happened yet.              *)
Register == /\ Stage("out", "registered")
            /\ held' = held \cup {"region"}
            /\ stray' = {}

(* From here on the device can be opened.                                  *)
CdevAdd == /\ Stage("registered", "live")
           /\ held' = held \cup {"cdev"}
           /\ UNCHANGED stray

(* scull_cleanup_module asks nothing: kfree does nothing with a null       *)
(* pointer, but cdev_del and unregister_chrdev_region are called for what  *)
(* the module does not have as well.                                       *)
CleanUp == /\ stray' = stray \cup ({"region", "cdev"} \ held)
           /\ held' = {}

CdevAddFails == Stage("registered", "out") /\ CleanUp

SetUp == /\ Stage("live", "ready")
         /\ held' = held \cup {"buffer"}
         /\ UNCHANGED stray
         /\ circleBuffer' \in [0..Cap-1 -> Junk]
         /\ start' = 0
         /\ end' = 0
         /\ FULL' = 0
         /\ EMPTY' = FifoSize
         /\ mLock' = Nobody
         /\ UNCHANGED <<pc, locals>>

KmallocFails == Stage("live", "hollow") /\ CleanUp

(* The kernel refuses to unload a module that is in use, which it knows    *)
(* from the owner of scull_fops and scull_cdev.                            *)
UnloadInUse(users) == /\ driver \in {"ready", "hollow"}     \* Bug: no owner
                      /\ driver' = "out"
                      /\ CleanUp
Unload(users) == /\ driver \in {"ready", "hollow"}
                 /\ users = {}
                 /\ driver' = "out"
                 /\ CleanUp

(* A call that comes before start and the semaphores are set up, or after  *)
(* kmalloc has failed.                                                     *)
NullDeref == /\ driver \in {"live", "hollow", "oops"}
             /\ driver' = "oops"
             /\ UNCHANGED <<held, stray>>

ModuleInit == driver = "out" /\ held = {} /\ stray = {}
=============================================================================
