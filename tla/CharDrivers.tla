---------------------------- MODULE CharDrivers ----------------------------
(***************************************************************************)
(* Loading and unloading of the two drivers of src/7: scull (main.c) and   *)
(* scull_pipe (pipe/scull_pipe.c).  Set-up registers a range of device     *)
(* numbers, allocates the devices and publishes them one by one; users     *)
(* may open a device as soon as it is published.                           *)
(***************************************************************************)
EXTENDS Naturals, FiniteSets

CONSTANT NrDevs    \* scull_nr_devs, scull_p_nr_devs

ASSUME CharAssumption == NrDevs \in Nat \ {0}

Drivers == {"scull", "scull_pipe"}
Devs == 1..NrDevs

VARIABLES mod,        \* "out", "coming", "live" or "going": the kernel's view of each module
          region,     \* drivers with a registered range of numbers
          devices,    \* drivers whose array of devices is allocated
          ready,      \* devices whose semaphore and queues are initialised
          cdevs,      \* devices published with cdev_add
          step,       \* the next device of the loop that runs
          opened,     \* files open on each device
          memory      \* devices that own memory (quantum sets, pipe buffer)

charVars == <<mod, region, devices, ready, cdevs, step, opened, memory>>
Of(d) == {d} \X Devs

\* insmod starts the set-up, unless the range of numbers is refused: scull
\* reports the failure, scull_pipe answers 0 and stays loaded without devices.
register_region(d) ==
    /\ mod[d] = "out"
    /\ \/ region' = region \cup {d} /\ mod' = [mod EXCEPT ![d] = "coming"]
       \/ region' = region /\ mod' = [mod EXCEPT ![d] = IF d = "scull" THEN "out" ELSE "live"]
    /\ step' = [step EXCEPT ![d] = 0]
    /\ UNCHANGED <<devices, ready, cdevs, opened, memory>>

UnregisterOnFailure(d) == region \ {d}

\* kmalloc of the devices; without memory the range is given back.
allocate_devices(d) ==
    /\ mod[d] = "coming" /\ step[d] = 0
    /\ \/ /\ devices' = devices \cup {d} /\ step' = [step EXCEPT ![d] = 1]
          /\ UNCHANGED <<mod, region>>
       \/ /\ region' = UnregisterOnFailure(d)
          /\ mod' = [mod EXCEPT ![d] = IF d = "scull" THEN "out" ELSE "live"]
          /\ UNCHANGED <<devices, step>>
    /\ UNCHANGED <<ready, cdevs, opened, memory>>

\* The semaphore and the queues come before the device is published.
InitOrder(d, i) == <<d, i>> \in ready

init_device(d) ==
    /\ mod[d] = "coming" /\ step[d] \in Devs /\ <<d, step[d]>> \notin ready
    /\ ready' = ready \cup {<<d, step[d]>>}
    /\ UNCHANGED <<mod, region, devices, cdevs, step, opened, memory>>

\* An error of cdev_add is printed and otherwise ignored.
scull_setup_cdev(d) ==
    /\ mod[d] = "coming" /\ step[d] \in Devs /\ InitOrder(d, step[d])
    /\ cdevs' \in {cdevs, cdevs \cup {<<d, step[d]>>}}
    /\ step' = [step EXCEPT ![d] = @ + 1]
    /\ mod' = [mod EXCEPT ![d] = IF step[d] = NrDevs THEN "live" ELSE @]
    /\ UNCHANGED <<region, devices, ready, opened, memory>>

\* The owner field makes the kernel count open files; a module that is going
\* away cannot be opened.  One file per device bounds the model.
Open(x) ==
    /\ x \in cdevs /\ mod[x[1]] \in {"coming", "live"} /\ opened[x] = 0
    /\ opened' = [opened EXCEPT ![x] = @ + 1]
    /\ UNCHANGED <<mod, region, devices, ready, cdevs, step, memory>>

Use(x) ==
    /\ opened[x] > 0
    /\ memory' = memory \cup {x}
    /\ UNCHANGED <<mod, region, devices, ready, cdevs, step, opened>>

\* The last close of a pipe frees its buffer; scull keeps its data.
Close(x) ==
    /\ opened[x] > 0
    /\ opened' = [opened EXCEPT ![x] = @ - 1]
    /\ memory' = IF x[1] = "scull_pipe" THEN memory \ {x} ELSE memory
    /\ UNCHANGED <<mod, region, devices, ready, cdevs, step>>

\* rmmod refuses while a file is open.
NotInUse(d) == \A x \in Of(d) : opened[x] = 0

rmmod(d) ==
    /\ mod[d] = "live" /\ NotInUse(d)
    /\ mod' = [mod EXCEPT ![d] = "going"]
    /\ step' = [step EXCEPT ![d] = 1]
    /\ UNCHANGED <<region, devices, ready, cdevs, opened, memory>>

\* One round of the clean-up loop: the memory of a device and its cdev.
cleanup_device(d) ==
    /\ mod[d] = "going" /\ d \in devices /\ step[d] \in Devs
    /\ memory' = memory \ {<<d, step[d]>>}
    /\ cdevs' = cdevs \ {<<d, step[d]>>}
    /\ step' = [step EXCEPT ![d] = @ + 1]
    /\ UNCHANGED <<mod, region, devices, ready, opened>>

\* Without devices scull_pipe has nothing to release.
scull_cleanup_module(d) ==
    /\ mod[d] = "going" /\ (d \in devices => step[d] > NrDevs)
    /\ devices' = devices \ {d} /\ region' = region \ {d} /\ ready' = ready \ Of(d)
    /\ mod' = [mod EXCEPT ![d] = "out"] /\ step' = [step EXCEPT ![d] = 0]
    /\ UNCHANGED <<cdevs, opened, memory>>

CharInit ==
    /\ mod = [d \in Drivers |-> "out"] /\ step = [d \in Drivers |-> 0]
    /\ region = {} /\ devices = {} /\ ready = {} /\ cdevs = {} /\ memory = {}
    /\ opened = [x \in Drivers \X Devs |-> 0]

CharNext ==
    \/ \E d \in Drivers :
          \/ register_region(d) \/ allocate_devices(d) \/ init_device(d) \/ scull_setup_cdev(d)
          \/ rmmod(d) \/ cleanup_device(d) \/ scull_cleanup_module(d)
    \/ \E x \in Drivers \X Devs : Open(x) \/ Use(x) \/ Close(x)

CharSpec == CharInit /\ [][CharNext]_charVars
-----------------------------------------------------------------------------
CharTypeOK ==
    /\ mod \in [Drivers -> {"out", "coming", "live", "going"}]
    /\ region \subseteq Drivers /\ devices \subseteq Drivers
    /\ ready \subseteq Drivers \X Devs /\ cdevs \subseteq Drivers \X Devs /\ memory \subseteq Drivers \X Devs
    /\ step \in [Drivers -> 0..(NrDevs + 1)] /\ opened \in [Drivers \X Devs -> Nat]

\* A device that can be opened, or is open, has its semaphore and queues
\* initialised and its memory allocated, at every moment of set-up and clean-up.
PublishedMeansReady ==
    \A x \in Drivers \X Devs :
       x \in cdevs \/ opened[x] > 0 => x \in ready /\ x[1] \in devices /\ x[1] \in region

\* Whichever step of set-up failed, and after every clean-up, nothing of the
\* driver is left behind: no numbers, no devices, no entry points, no data.
NothingLeftBehind ==
    \A d \in Drivers :
       mod[d] = "out" => /\ d \notin region /\ d \notin devices
                         /\ \A x \in Of(d) : x \notin cdevs /\ x \notin memory /\ opened[x] = 0
=============================================================================
