----------------------------- MODULE StaffRecords -----------------------------
(***************************************************************************)
(* The user, the wallet and the profile of one employee: HrService and     *)
(* UsersService of one instance, whose requests overlap.  Payroll pays     *)
(* whoever has a profile that is not deleted; deleting the user deletes    *)
(* the profile by an event inside the process.                             *)
(***************************************************************************)
EXTENDS Integers

CONSTANTS
  StaffRequests,  \* the requests, numbered in the order in which they begin
  StaffPlots      \* instances: the requests' kinds, what there is at first, the faults

VARIABLES
  person,     \* the user's row, whether the wallet is there, and the profile's row
  staffOp,    \* the requests: where they are and what they read
  leaving,    \* the handlers of UserDeletedEvent, by the request that published it
  misfits,    \* what may keep a profile: "lost" events, "late" writes, a "revived" user
  staffFaults,  \* faults that have happened
  staffPlot     \* the instance

staffRecordVars == <<person, staffOp, leaving, misfits, staffFaults, staffPlot>>

StaffKinds == {"createStaff", "createProfile", "updateProfile", "deleteProfile", "updateUser", "removeUser"}

NoProfile == [is |-> "none", id |-> 0]
Live(id) == [is |-> "live", id |-> id]
Employed(user, wallet, profile) == [user |-> user, wallet |-> wallet, profile |-> profile]

Hired == -1  \* the profile that is there at first; later ones bear the request that made them

\* Requests are numbered from 1; an instance begins with nobody, an account alone, or an employee.
NoAccount == Employed("none", FALSE, NoProfile)
Account == Employed("active", FALSE, NoProfile)
Member == Employed("active", TRUE, Live(Hired))

ASSUME StaffAssumption ==
  /\ StaffRequests \subseteq Nat \ {0}
  /\ StaffPlots \subseteq [kinds : SUBSET StaffKinds, person : {NoAccount, Account, Member}, faults : Nat]

StaffRecordsInit ==
  \E plot \in StaffPlots :
    /\ staffPlot = plot
    /\ person = plot.person
    /\ staffOp = [r \in StaffRequests |-> [kind |-> "", at |-> "new", profile |-> 0, early |-> FALSE]]
    /\ leaving = [r \in StaffRequests |-> [at |-> "none", profile |-> 0]]
    /\ misfits = {}
    /\ staffFaults = 0

IsAt(r, kind, step) == staffOp[r].kind = kind /\ staffOp[r].at = step
Gets(r, step) == staffOp' = [staffOp EXCEPT ![r].at = step]

\* The event of a deleted user is yet to be published, or its handler to end.
UnderWay ==
  \E r \in StaffRequests : IsAt(r, "removeUser", "announce") \/ leaving[r].at \in {"due", "found"}

Misfit(kind, when) == misfits' = IF when THEN misfits \cup {kind} ELSE misfits
----------------------------------------------------------------------------
\* Requests begin in their order, of any kind.
Begins(r) == staffOp[r].at = "new" /\ \A q \in StaffRequests : q < r => staffOp[q].at # "new"

\* Creating a profile asks for the user, changing one for both; an operation on what is not there fails.
\* "early" remembers that the deletion of the user had not had its whole effect by then.
MayHaveProfile == person.user = "active"
Found(kind) ==
  CASE kind = "createProfile" -> MayHaveProfile
    [] kind \in {"updateProfile", "deleteProfile"} -> person.profile.is = "live" /\ person.user = "active"
    [] kind \in {"updateUser", "removeUser"} -> person.user = "active"

LookUp(r, kind) ==
  /\ Begins(r)
  /\ kind \in staffPlot.kinds \ {"createStaff"}
  /\ staffOp' = [staffOp EXCEPT ![r] =
       [kind |-> kind, at |-> IF Found(kind) THEN "read" ELSE "ended", profile |-> person.profile.id,
        early |-> person.user # "deleted" \/ UnderWay]]
  /\ UNCHANGED <<person, leaving, misfits, staffFaults, staffPlot>>

\* createStaff: user, wallet and profile in one transaction; an e-mail address in use is refused.
CreateStaff(r) ==
  /\ Begins(r)
  /\ "createStaff" \in staffPlot.kinds
  /\ staffOp' = [staffOp EXCEPT ![r] = [kind |-> "createStaff", at |-> "ended", profile |-> r, early |-> TRUE]]
  /\ person' = IF person.user = "none" THEN Employed("active", TRUE, Live(r)) ELSE person
  /\ UNCHANGED <<leaving, misfits, staffFaults, staffPlot>>

\* createProfile: wallet and profile together; the row of a deleted profile keeps its user_id taken.
InsertProfile(r) ==
  /\ IsAt(r, "createProfile", "read")
  /\ IF person.profile.is = "none"
     THEN /\ person' = Employed(person.user, TRUE, Live(r))
          /\ Misfit("late", person.user = "deleted" /\ staffOp[r].early)
     ELSE UNCHANGED <<person, misfits>>
  /\ Gets(r, "ended")
  /\ UNCHANGED <<leaving, staffFaults, staffPlot>>

\* updateProfile saves what it read: it takes a deletion back and inserts a removed row again,
\* unless another profile has taken its place.
SaveProfile(r) ==
  /\ IsAt(r, "updateProfile", "read")
  /\ IF person.profile.id \in {0, staffOp[r].profile}
     THEN /\ person' = Employed(person.user, person.wallet, Live(staffOp[r].profile))
          /\ Misfit("late", person.user = "deleted" /\ staffOp[r].early)
     ELSE UNCHANGED <<person, misfits>>
  /\ Gets(r, "ended")
  /\ UNCHANGED <<leaving, staffFaults, staffPlot>>

\* deleteProfile removes the row.
RemoveProfile(r) ==
  /\ IsAt(r, "deleteProfile", "read")
  /\ person' = IF person.profile.id = staffOp[r].profile
               THEN Employed(person.user, person.wallet, NoProfile) ELSE person
  /\ Gets(r, "ended")
  /\ UNCHANGED <<leaving, misfits, staffFaults, staffPlot>>

\* UsersService.update saves what it read, and with it that the user is not deleted.
SaveUser(r) ==
  /\ IsAt(r, "updateUser", "read")
  /\ person' = Employed("active", person.wallet, person.profile)
  /\ Misfit("revived", person.user = "deleted")
  /\ Gets(r, "ended")
  /\ UNCHANGED <<leaving, staffFaults, staffPlot>>

\* UsersService.remove: the row first, then the event.
SoftRemoveUser(r) ==
  /\ IsAt(r, "removeUser", "read")
  /\ person' = Employed("deleted", person.wallet, person.profile)
  /\ Gets(r, "announce")
  /\ UNCHANGED <<leaving, misfits, staffFaults, staffPlot>>

PublishUserDeleted(r) ==
  /\ IsAt(r, "removeUser", "announce")
  /\ leaving' = [leaving EXCEPT ![r].at = "due"]
  /\ Gets(r, "ended")
  /\ UNCHANGED <<person, misfits, staffFaults, staffPlot>>
----------------------------------------------------------------------------
\* softDeleteProfileByUserId: a profile that is not there, or deleted, is left alone.
FindLeaver(r) ==
  /\ leaving[r].at = "due"
  /\ leaving' = [leaving EXCEPT ![r] =
       [at |-> IF person.profile.is = "live" THEN "found" ELSE "over", profile |-> person.profile.id]]
  /\ UNCHANGED <<person, staffOp, misfits, staffFaults, staffPlot>>

SoftRemoveProfile(r) ==
  /\ leaving[r].at = "found"
  /\ person' = IF person.profile.id = leaving[r].profile
               THEN Employed(person.user, person.wallet, [is |-> "deleted", id |-> person.profile.id]) ELSE person
  /\ leaving' = [leaving EXCEPT ![r].at = "over"]
  /\ UNCHANGED <<staffOp, misfits, staffFaults, staffPlot>>

\* The database fails the handler, which logs it, or the process ends and the handler with it.
LoseLeaver(r) ==
  /\ staffFaults < staffPlot.faults /\ staffFaults' = staffFaults + 1
  /\ \/ /\ leaving[r].at \in {"due", "found"}
        /\ leaving' = [leaving EXCEPT ![r].at = "over"]
        /\ UNCHANGED staffOp
     \/ /\ IsAt(r, "removeUser", "announce") /\ Gets(r, "ended")
        /\ UNCHANGED leaving
  /\ misfits' = misfits \cup {"lost"}
  /\ UNCHANGED <<person, staffPlot>>

\* A request fails before it writes: a transaction that is rolled back, a failed audit entry.
StaffRequestFails(r) ==
  /\ staffOp[r].at = "read"
  /\ staffFaults < staffPlot.faults /\ staffFaults' = staffFaults + 1
  /\ Gets(r, "ended")
  /\ UNCHANGED <<person, leaving, misfits, staffPlot>>

StaffRecordsNext ==
  \E r \in StaffRequests :
    \/ CreateStaff(r) \/ (\E kind \in staffPlot.kinds : LookUp(r, kind))
    \/ InsertProfile(r) \/ SaveProfile(r) \/ RemoveProfile(r) \/ SaveUser(r)
    \/ SoftRemoveUser(r) \/ PublishUserDeleted(r)
    \/ FindLeaver(r) \/ SoftRemoveProfile(r) \/ LoseLeaver(r) \/ StaffRequestFails(r)

StaffRecordsSpec == StaffRecordsInit /\ [][StaffRecordsNext]_staffRecordVars
----------------------------------------------------------------------------
StaffRecordsTypeOK ==
  /\ person.user \in {"none", "active", "deleted"} /\ person.wallet \in BOOLEAN
  /\ person.profile.is \in {"none", "live", "deleted"} /\ person.profile.id \in StaffRequests \cup {0, Hired}
  /\ misfits \subseteq {"lost", "late", "revived"}

(* A deleted user has no profile that payroll would pay, unless the event   *)
(* is still under way or was lost with its process, or a request that read  *)
(* before it had its effect wrote the profile after; a user who was not     *)
(* deleted keeps the profile; and whoever has a profile has a wallet.       *)
ProfilesFollowUsers ==
  /\ person.user = "deleted" /\ person.profile.is = "live" => UnderWay \/ misfits \cap {"lost", "late"} # {}
  /\ person.user = "active" /\ person.profile.is = "deleted" => "revived" \in misfits
  /\ person.profile.is = "live" => person.wallet
===============================================================================
