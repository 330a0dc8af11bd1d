\* Up to two services; three jobs between two ingress and two world threads.
CONSTANTS
    Ingress = {t1, t2}
    World = {w1, w2}
    Job = {j1, j2, j3}
    NoJob = NoJob
    NoPacket = NoPacket
    Registration <- Services
    Packet <- Packets
    MaxServices = 2
SPECIFICATION Spec
SYMMETRY Symmetry
INVARIANTS HostConsistent SoleOwner OnlyCheckedJobs EveryPacketFound
PROPERTIES ImplementsCustody
CHECK_DEADLOCK FALSE
