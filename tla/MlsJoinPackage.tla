--------------------------- MODULE MlsJoinPackage ---------------------------
(***************************************************************************)
(* The signing identity of a device and its one-use join packages          *)
(* (src/src/mls/MlsDeviceIdentity.ts, src/src/mls/MlsJoinPackage.ts), as   *)
(* objects of a process, with what the application stored of them: the     *)
(* protected package, and apart from it the identifier it trusts, which is *)
(* replaced by a tombstone when the session made from the package is       *)
(* adopted.                                                                *)
(*                                                                         *)
(* Key bytes are "live" or "zero": what matters is who can still read them.*)
(* A protected blob opens only under its domain and the root key; a blob   *)
(* of another kind, or altered, is refused, and the packages stored here   *)
(* are those the device protected (RootProtectedEnvelope).                 *)
(***************************************************************************)
EXTENDS Naturals

CONSTANTS
    Packages,   \* the join packages a device makes
    None        \* no such object in memory

VARIABLES
    identity,       \* key bytes of the identity, "none" before it is made,
                    \* "stored" while only its protected form is there
    making,         \* per package, the createJoinPackage call that makes it
    packages,       \* per package, its object in memory, or None
    blobs,          \* the packages stored, under the root key
    trusted         \* per package, the identifier stored apart from the blob

packageVars == <<identity, making, packages, blobs, trusted>>

Bytes == {"live", "zero"}

\* `keys` are the bytes the object keeps, `copy` the clone the use in flight
\* works on, "none" outside a use.  `used` says what the use makes.
PackageObjects == [consumed : BOOLEAN, inUse : BOOLEAN, keys : Bytes,
                   copy : Bytes \union {"none"}]

ASSUME PackageAssumption == None \notin PackageObjects

PackageTypeOK ==
    /\ identity \in Bytes \union {"none", "stored"}
    /\ making \in [Packages -> {"none", "suite"} \union Bytes]
    /\ packages \in [Packages -> PackageObjects \union {None}]
    /\ blobs \subseteq Packages
    /\ trusted \in [Packages -> {"none", "package", "tombstone"}]

PackageInit ==
    /\ identity = "none"
    /\ making = [p \in Packages |-> "none"]
    /\ packages = [p \in Packages |-> None]
    /\ blobs = {}
    /\ trusted = [p \in Packages |-> "none"]

----------------------------------------------------------------------------
(* The identity *)

\* generate(); the application stores protect() of it before it is used.
GenerateIdentity ==
    /\ identity = "none"
    /\ identity' = "live"
    /\ UNCHANGED <<making, packages, blobs, trusted>>

\* restore(), which makes the stored pair sign and verify a proof.
RestoreIdentity ==
    /\ identity = "stored"
    /\ identity' = "live"
    /\ UNCHANGED <<making, packages, blobs, trusted>>

\* The calls in flight go on with the bytes destroy() has filled with zeros.
DestroyIdentity ==
    /\ identity = "live"
    /\ identity' = "zero"
    /\ UNCHANGED <<making, packages, blobs, trusted>>

\* createJoinPackage: the check, then the await of the cipher suite ...
MakeStart(p) ==
    /\ identity = "live"
    /\ making[p] = "none"
    /\ packages[p] = None
    /\ trusted[p] = "none"
    /\ making' = [making EXCEPT ![p] = "suite"]
    /\ UNCHANGED <<identity, packages, blobs, trusted>>

\* ... then the copies of the identity's bytes, as they are by now ...
MakeCopy(p) ==
    /\ making[p] = "suite"
    /\ making' = [making EXCEPT ![p] = identity]
    /\ UNCHANGED <<identity, packages, blobs, trusted>>

FreshPackage(bytes) ==
    [consumed |-> FALSE, inUse |-> FALSE, keys |-> bytes, copy |-> "none"]

\* Signing needs a well-formed PKCS #8 key: with zeros the suite's import of
\* it fails.
Signs(bytes) == bytes = "live"

\* ... and the package, or the rejection of the call.
MakeFinish(p) ==
    /\ making[p] \in Bytes
    /\ making' = [making EXCEPT ![p] = "none"]
    /\ packages' = IF Signs(making[p])
                   THEN [packages EXCEPT ![p] = FreshPackage(making[p])]
                   ELSE packages
    /\ UNCHANGED <<identity, blobs, trusted>>

----------------------------------------------------------------------------
(* The package *)

\* #consumed || #inUse refuses a use and protect().
Unused(package) == ~ package.consumed /\ ~ package.inUse

\* destroy()
Wiped(package) == [package EXCEPT !.keys = "zero", !.consumed = TRUE]

\* [MLS_JOIN_PACKAGE_USE]: it takes a clone and runs the operation on it.
Taken(package) == [package EXCEPT !.inUse = TRUE, !.copy = package.keys]

\* A use that succeeded: the clone now belongs to the group state it made.
Spent(package) ==
    [Wiped(package) EXCEPT !.inUse = FALSE, !.copy = "none"]

\* Mutant: the operation works on the package's own bytes, not on a clone.
GivenBackWiped(package) ==
    [package EXCEPT !.inUse = FALSE, !.copy = "zero", !.keys = "zero"]

\* A use that failed: the clone is filled with zeros.
GivenBack(package) == [package EXCEPT !.inUse = FALSE, !.copy = "zero"]

\* The application may destroy a package whenever it likes.
DestroyPackage(p) ==
    /\ packages[p] # None
    /\ packages' = [packages EXCEPT ![p] = Wiped(@)]
    /\ UNCHANGED <<identity, making, blobs, trusted>>

\* consumePrivatePackage(): the caller takes a clone away.
ConsumePackage(p) ==
    /\ packages[p] # None
    /\ Unused(packages[p])
    /\ packages' = [packages EXCEPT ![p] = Wiped(@)]
    /\ UNCHANGED <<identity, making, blobs, trusted>>

\* protect(), and the application stores the blob and, apart from it, the
\* identifier.
StorePackage(p) ==
    /\ packages[p] # None
    /\ Unused(packages[p])
    /\ trusted[p] = "none"
    /\ blobs' = blobs \union {p}
    /\ trusted' = [trusted EXCEPT ![p] = "package"]
    /\ UNCHANGED <<identity, making, packages>>

\* Mutant: the blob alone is enough.
RestorableBlob(p) == p \in blobs

\* MlsJoinPackage.restore requires the identifier; the blob alone, which a
\* backup may bring back, is not enough.
Restorable(p) == p \in blobs /\ trusted[p] = "package"

RestorePackage(p) ==
    /\ packages[p] = None
    /\ Restorable(p)
    /\ packages' = [packages EXCEPT ![p] = FreshPackage("live")]
    /\ UNCHANGED <<identity, making, blobs, trusted>>

\* The process ends: the objects and the calls go, what is stored stays.
PackageCrash ==
    /\ identity' = IF identity = "none" THEN "none" ELSE "stored"
    /\ making' = [p \in Packages |-> "none"]
    /\ packages' = [p \in Packages |-> None]
    /\ UNCHANGED <<blobs, trusted>>

PackageStep ==
    \/ GenerateIdentity
    \/ RestoreIdentity
    \/ DestroyIdentity
    \/ \E p \in Packages :
        \/ MakeStart(p)
        \/ MakeCopy(p)
        \/ MakeFinish(p)
        \/ DestroyPackage(p)
        \/ ConsumePackage(p)
        \/ StorePackage(p)
        \/ RestorePackage(p)
=============================================================================
