------------------------------- MODULE Doctor -------------------------------
(***************************************************************************)
(* git-s3 doctor (Doctor in src/git_remote_s3/manage.py): read the         *)
(* manifest, list the packs, and call an entry that names a pack which is  *)
(* not listed a corruption.  It writes nothing.  The Access Grants probe   *)
(* that comes first reads nothing of the repository and is left out.       *)
(***************************************************************************)
EXTENDS WalStore

CONSTANT Doctors  \* processes that run doctor

VARIABLES
    visit,      \* visit[d]: where doctor d is
    inspected,  \* inspected[d]: the manifest d has read
    listing,    \* listing[d]: the packs d has listed
    verdict     \* verdict[d]: d's exit

doctorVars == <<visit, inspected, listing, verdict>>

DoctorTypeOK ==
    /\ visit \in [Doctors -> {"idle", "list", "report", "done"}]
    /\ inspected \in [Doctors -> Manifest]
    /\ listing \in [Doctors -> SUBSET Pack]
    /\ verdict \in [Doctors -> {"none", "clean", "alarm", "raised"}]

DoctorInit ==
    /\ visit = [d \in Doctors |-> "idle"]
    /\ inspected = [d \in Doctors |-> EmptyManifest]
    /\ listing = [d \in Doctors |-> {}]
    /\ verdict = [d \in Doctors |-> "none"]

-----------------------------------------------------------------------------
Visit(d, label) == visit' = [visit EXCEPT ![d] = label]

\* doctor exits: what it has read dies with it.
Concludes(d, how) ==
    /\ Visit(d, "done")
    /\ verdict' = [verdict EXCEPT ![d] = how]
    /\ inspected' = [inspected EXCEPT ![d] = EmptyManifest]
    /\ listing' = [listing EXCEPT ![d] = {}]

\* A repository without a manifest has not been migrated: no error.
StartDoctor(d) ==
    /\ visit[d] = "idle"
    /\ IF Exists(manifest)
       THEN /\ inspected' = [inspected EXCEPT ![d] = manifest]
            /\ Visit(d, "list")
            /\ UNCHANGED <<listing, verdict>>
       ELSE Concludes(d, "clean")

DoctorList(d) ==
    /\ visit[d] = "list"
    /\ listing' = [listing EXCEPT ![d] = packs]
    /\ Visit(d, "report")
    /\ UNCHANGED <<inspected, verdict>>

\* Mutant: the listing is compared with the manifest as it is by now.
MissingFromLatest(d) == Named(manifest) \ listing[d]

\* report_packs: the entries whose pack is not in the bucket.
MissingPacks(d) == Named(inspected[d]) \ listing[d]

DoctorReport(d) ==
    /\ visit[d] = "report"
    /\ Concludes(d, IF MissingPacks(d) = {} /\ ValidEntries(inspected[d])
                    THEN "clean" ELSE "alarm")

\* A read of S3 fails.
DoctorRaises(d) ==
    /\ visit[d] \in {"idle", "list"}
    /\ Concludes(d, "raised")

DoctorStep(d) ==
    \/ StartDoctor(d)
    \/ DoctorList(d)
    \/ DoctorReport(d)
    \/ DoctorRaises(d)
=============================================================================
