----------------------------- MODULE PinStore -----------------------------
(***************************************************************************)
(* The archive store of governance-cli (ipfs.rs, output.rs): pin_locally   *)
(* run by several processes over one directory, the import into a Kubo     *)
(* node and the requests to external pin providers that follow it, and the *)
(* retrieval of an archive from public gateways.  A process may die at any *)
(* of its steps; a file created with create_new has no content until the   *)
(* write that follows.  A file is [bytes] or None; "partial" stands for a  *)
(* file whose write did not finish.                                        *)
(***************************************************************************)
EXTENDS Integers, FiniteSets, Sequences

CONSTANTS None,
          Processes,
          Archives,       \* [cid, bytes, root]: root is what the bytes verify to
          Ecosystems,     \* values of --ecosystem-cid, None included
          Providers,
          Gateways,       \* a sequence; each serves some archive or nothing
          MaxCrashes, MaxPins

VARIABLES cars, digests,  \* CID -> file
          pinset, tmp,    \* the pinset file and its temporary
          proc,           \* what every process does
          kubo,           \* CIDs the public node confirmed
          asked,          \* <<provider, CID>> pairs requested
          fetched,        \* CID -> archive bytes written by fetch
          crashes, pins

vars == <<cars, digests, pinset, tmp, proc, kubo, asked, fetched, crashes, pins>>
local == <<cars, digests, pinset, tmp>>
public == <<kubo, asked, fetched>>

Cids == {a.cid : a \in Archives}
Partial == "partial"
Idle == [pc |-> "idle"]

\* verify_car_integrity
CarVerifies(a) == a.root = a.cid

Goto(p, pc) == proc' = [proc EXCEPT ![p].pc = pc]
Bail(p) == proc' = [proc EXCEPT ![p] = Idle]
At(p, pc) == proc[p].pc = pc

-----------------------------------------------------------------------------
(* pin_locally *)

StartPin(p) ==
    /\ At(p, "idle") /\ pins < MaxPins
    /\ \E a \in Archives, e \in Ecosystems :
          /\ CarVerifies(a)
          /\ proc' = [proc EXCEPT ![p] =
                [pc |-> "car", archive |-> a, ecosystem |-> e, read |-> None]]
    /\ pins' = pins + 1
    /\ UNCHANGED <<local, public, crashes>>

MutSameBytes(file, bytes) == TRUE
SameBytes(file, bytes) == file = bytes

\* exists, then either the comparison or write_new (create_new, then write_all).
WriteCar(p) ==
    LET a == proc[p].archive
    IN  /\ At(p, "car")
        /\ IF cars[a.cid] # None
           THEN /\ IF SameBytes(cars[a.cid], a.bytes) THEN Goto(p, "digest") ELSE Bail(p)
                /\ UNCHANGED cars
           ELSE cars' = [cars EXCEPT ![a.cid] = Partial] /\ Goto(p, "carBytes")
        /\ UNCHANGED <<digests, pinset, tmp, public, crashes, pins>>

WriteCarBytes(p) ==
    /\ At(p, "carBytes")
    /\ cars' = [cars EXCEPT ![proc[p].archive.cid] = proc[p].archive.bytes]
    /\ Goto(p, "digest")
    /\ UNCHANGED <<digests, pinset, tmp, public, crashes, pins>>

WriteDigest(p) ==
    LET a == proc[p].archive
    IN  /\ At(p, "digest")
        /\ IF digests[a.cid] # None
           THEN /\ IF SameBytes(digests[a.cid], a.bytes) THEN Goto(p, "pinset") ELSE Bail(p)
                /\ UNCHANGED digests
           ELSE digests' = [digests EXCEPT ![a.cid] = Partial] /\ Goto(p, "digestBytes")
        /\ UNCHANGED <<cars, pinset, tmp, public, crashes, pins>>

WriteDigestBytes(p) ==
    /\ At(p, "digestBytes")
    /\ digests' = [digests EXCEPT ![proc[p].archive.cid] = proc[p].archive.bytes]
    /\ Goto(p, "pinset")
    /\ UNCHANGED <<cars, pinset, tmp, public, crashes, pins>>

\* The pinset a process goes on with, bound to the ecosystem it was given.
Bound(stored, ecosystem) ==
    IF stored.ecosystem = None THEN [stored EXCEPT !.ecosystem = ecosystem] ELSE stored

ReadPinset(p) ==
    LET stored == IF pinset = None THEN [ecosystem |-> None, cids |-> {}] ELSE pinset
        ecosystem == proc[p].ecosystem
        bound == Bound(stored, ecosystem)
    IN  /\ At(p, "pinset")
        /\ IF ecosystem # None /\ bound.ecosystem # ecosystem
           THEN Bail(p)
           ELSE proc' = [proc EXCEPT ![p].pc = "tmp",
                    ![p].read = [bound EXCEPT !.cids = @ \cup {proc[p].archive.cid}]]
        /\ UNCHANGED <<local, public, crashes, pins>>

\* A temporary file that exists, or appears before create_new, is an error.
CreateTemporary(p) ==
    /\ At(p, "tmp")
    /\ IF tmp # None THEN Bail(p) /\ UNCHANGED tmp
       ELSE tmp' = [ecosystem |-> None, cids |-> {Partial}] /\ Goto(p, "tmpBytes")
    /\ UNCHANGED <<cars, digests, pinset, public, crashes, pins>>

WriteTemporary(p) ==
    /\ At(p, "tmpBytes")
    /\ tmp' = proc[p].read /\ Goto(p, "rename")
    /\ UNCHANGED <<cars, digests, pinset, public, crashes, pins>>

Rename(p) ==
    /\ At(p, "rename")
    /\ pinset' = tmp /\ tmp' = None /\ Goto(p, "kubo")
    /\ UNCHANGED <<cars, digests, public, crashes, pins>>

-----------------------------------------------------------------------------
(* pin_command after the local pin *)

\* kubo_pin_response_confirms_root, for an answer that lists pinned CIDs.
Confirms(listed, cid) == cid \in listed

\* import_to_public_kubo: import, pin and list; the node may fail any of them.
ImportToKubo(p) ==
    /\ At(p, "kubo")
    /\ \E pinned, listed \in SUBSET {proc[p].archive.cid} :
          IF Confirms(pinned, proc[p].archive.cid) /\ Confirms(listed, proc[p].archive.cid)
          THEN kubo' = kubo \cup {proc[p].archive.cid} /\ Goto(p, "external")
          ELSE kubo' = kubo /\ Bail(p)
    /\ UNCHANGED <<local, asked, fetched, crashes, pins>>

\* Without --kubo-api the command ends, and refuses external providers.
SkipKubo(p) == At(p, "kubo") /\ Bail(p) /\ UNCHANGED <<local, public, crashes, pins>>

\* request_external_pins, one provider; the first failure ends the command.
RequestExternalPin(p) ==
    /\ At(p, "external")
    /\ \E provider \in Providers :
          /\ <<provider, proc[p].archive.cid>> \notin asked
          /\ asked' = asked \cup {<<provider, proc[p].archive.cid>>}
          /\ Goto(p, "external") \/ Bail(p)
    /\ UNCHANGED <<local, kubo, fetched, crashes, pins>>

FinishPin(p) == At(p, "external") /\ Bail(p) /\ UNCHANGED <<local, public, crashes, pins>>

\* The process dies; its files stay as they are.
Crash(p) ==
    /\ ~At(p, "idle") /\ crashes < MaxCrashes
    /\ Bail(p) /\ crashes' = crashes + 1
    /\ UNCHANGED <<local, public, pins>>

-----------------------------------------------------------------------------
(* fetch_command *)

\* fetch_from_gateway: what a gateway answers is accepted when it verifies.
Accepts(answer, cid) == answer # None /\ answer.root = cid

\* fetch_car_from_gateways: the first gateway whose answer is accepted.
FetchCar(cid, answers) ==
    LET accepted == {i \in 1..Len(Gateways) : Accepts(answers[i], cid)}
    IN  IF Len(Gateways) < 2 \/ accepted = {} THEN None
        ELSE answers[CHOOSE i \in accepted : \A j \in accepted : i <= j]

Fetch(cid) ==
    /\ fetched[cid] = None
    /\ \E answers \in [1..Len(Gateways) -> Archives \cup {None}] :
          LET archive == FetchCar(cid, answers)
          IN  archive # None /\ fetched' = [fetched EXCEPT ![cid] = archive]
    /\ UNCHANGED <<local, proc, kubo, asked, crashes, pins>>

Init ==
    /\ cars = [c \in Cids |-> None] /\ digests = [c \in Cids |-> None]
    /\ pinset = None /\ tmp = None
    /\ proc = [p \in Processes |-> Idle]
    /\ kubo = {} /\ asked = {} /\ fetched = [c \in Cids |-> None]
    /\ crashes = 0 /\ pins = 0

Next ==
    \/ \E p \in Processes :
          \/ StartPin(p) \/ WriteCar(p) \/ WriteCarBytes(p) \/ WriteDigest(p)
          \/ WriteDigestBytes(p) \/ ReadPinset(p) \/ CreateTemporary(p)
          \/ WriteTemporary(p) \/ Rename(p) \/ ImportToKubo(p) \/ SkipKubo(p)
          \/ RequestExternalPin(p) \/ FinishPin(p) \/ Crash(p)
    \/ \E cid \in Cids : Fetch(cid)

Spec == Init /\ [][Next]_vars

-----------------------------------------------------------------------------
\* Whatever processes ran and died over the store, every CID of the pinset has
\* an archive that verifies to it and the checksum of that archive, the public
\* node pinned only such CIDs, and a provider was asked only for CIDs the
\* public node has; a fetched archive verifies to the CID asked for
\* (pin_locally, pin_command, fetch_car_from_gateways).
PinnedHaveBytes ==
    /\ pinset # None =>
          \A cid \in pinset.cids :
             \E a \in Archives : /\ CarVerifies(a) /\ a.cid = cid
                                 /\ cars[cid] = a.bytes /\ digests[cid] = a.bytes
    /\ \A cid \in kubo : cars[cid] # None /\ cars[cid] # Partial
    /\ \A request \in asked : request[2] \in kubo
    /\ \A cid \in Cids : fetched[cid] # None => fetched[cid].root = cid
=============================================================================
