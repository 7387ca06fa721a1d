----------------------------- MODULE VersionLink -----------------------------
(***************************************************************************)
(* How requests get the firmware versions of the server.  BiosVersion and  *)
(* BmcVersion are no D-Bus properties of the server: each time a request   *)
(* reads a field of the Server entity, Entity::getInstances hands every    *)
(* instance of the Version provider to Server::linkVersions, which writes  *)
(* its version into the one shared Server instance, under the member its   *)
(* purpose stands for.  Both brokers publish once, at any time, and later  *)
(* signals change the version objects; nothing of this takes a lock.       *)
(***************************************************************************)
EXTENDS SystemQueries, SequencesExt

CONSTANTS
    Requests,     \* FastCGI threads that serve requests
    Images,       \* software objects, in the order of their hashes
    Purpose,      \* the purpose each has on the bus
    MaxSignals    \* bound: signals about software objects

Objects == ToSet(Images)
NA == 0           \* the member is not there, or its value is "N/A"
MaxVersion == MaxSignals + 1

ASSUME VersionLinkAssumption ==
    /\ Images \in Seq(Objects) /\ IsInjective(Images)
    /\ DOMAIN Purpose = Objects
    /\ MaxSignals \in Nat

VARIABLES
    up,         \* the process lives
    instances,  \* instances of the Version entity: all objects, or none yet
    purpose,    \* their Purpose: that of the bus, or "N/A"
    version,    \* their Version: a number, or NA
    server,     \* whether the Server entity has its instance
    members,    \* which of the two members that instance has
    field,      \* their values
    pc,         \* where each request is
    asked,      \* the member it asks for
    todo,       \* instances its loop has not reached
    member,     \* the member linkVersions found for the purpose it read
    value,      \* the version it is about to add
    served,     \* what it answered
    signals,    \* number of signals so far
    calm,       \* history: nobody else has interfered since it started
    showed      \* history: versions each object has shown

busVars == <<instances, purpose, version, signals, showed>>
serverVars == <<server, members, field>>
requestVars == <<pc, asked, todo, member, value, served, calm>>
vars == <<up, busVars, serverVars, requestVars>>

Fields == {"BmcVersion", "BiosVersion"}

Init ==
    /\ up = TRUE
    /\ instances = <<>>
    /\ \E none \in SUBSET Objects :
          purpose = [o \in Objects |-> IF o \in none THEN "N/A" ELSE Purpose[o]]
    /\ version \in [Objects -> {NA, 1}]
    /\ server = FALSE
    /\ members = {}
    /\ field = [f \in Fields |-> NA]
    /\ pc = [r \in Requests |-> "idle"]
    /\ asked = [r \in Requests |-> "BmcVersion"]
    /\ todo = [r \in Requests |-> <<>>]
    /\ member = [r \in Requests |-> "none"]
    /\ value = [r \in Requests |-> NA]
    /\ served = [r \in Requests |-> NA]
    /\ signals = 0
    /\ calm = [r \in Requests |-> FALSE]
    /\ showed = [o \in Objects |-> {version[o]}]
-----------------------------------------------------------------------------
At(r, l) == up /\ pc[r] = l
Goto(r, l) == pc' = [pc EXCEPT ![r] = l]
Disturb(rs) == calm' = [r \in Requests |-> calm[r] /\ r \notin rs]

(***************************************************************************)
(* The pool's side.                                                        *)
(***************************************************************************)

\* The broker of the Version provider publishes; what GetAll did not return
\* is missing from the instances.
PublishVersions ==
    /\ up /\ instances = <<>>
    /\ instances' = Images
    /\ Disturb(Requests)
    /\ UNCHANGED <<up, purpose, version, signals, showed, serverVars,
                   pc, asked, todo, member, value, served>>

\* The broker of the Server entity publishes.
PublishServer ==
    /\ up /\ ~server
    /\ server' = TRUE
    /\ Disturb(Requests)
    /\ UNCHANGED <<up, busVars, members, field, pc, asked, todo, member, value, served>>

\* A signal: the object gets a new version, or its purpose comes at last.
Signal(o) ==
    /\ up /\ instances # <<>> /\ signals < MaxSignals
    /\ signals' = signals + 1
    /\ \/ /\ version[o] < MaxVersion
          /\ version' = [version EXCEPT ![o] = @ + 1]
          /\ showed' = [showed EXCEPT ![o] = @ \cup {version'[o]}]
          /\ UNCHANGED purpose
       \/ /\ purpose[o] = "N/A"
          /\ purpose' = [purpose EXCEPT ![o] = Purpose[o]]
          /\ UNCHANGED <<version, showed>>
    /\ Disturb(Requests)
    /\ UNCHANGED <<up, instances, serverVars, pc, asked, todo, member, value, served>>
-----------------------------------------------------------------------------
(***************************************************************************)
(* The request's side: the supplement of one field of the Server entity.   *)
(***************************************************************************)

\* Entity::getInstances of the server, and of the provider for its loop.
Start(r, f) ==
    /\ At(r, "idle")
    /\ asked' = [asked EXCEPT ![r] = f]
    /\ todo' = [todo EXCEPT ![r] = IF server THEN instances ELSE <<>>]
    /\ Goto(r, IF server THEN "linking" ELSE "absent")
    /\ calm' = [calm EXCEPT ![r] = TRUE]
    /\ UNCHANGED <<up, busVars, serverVars, member, value, served>>

\* Mutant: the two members are exchanged.
swappedMembers(p) ==
    CASE p = "BMC" -> "BiosVersion" [] p = "BIOS" -> "BmcVersion" [] OTHER -> "none"

\* linkVersions: purposeToMemberName, with "none" for an unknown purpose.
purposeToMemberName(p) ==
    CASE p = "BMC" -> "BmcVersion" [] p = "BIOS" -> "BiosVersion" [] OTHER -> "none"

Skips(m) == m = "none"

\* linkVersions reads the purpose of the next instance; an unknown one is
\* skipped.
ReadPurpose(r) ==
    /\ At(r, "linking") /\ todo[r] # <<>>
    /\ LET o == Head(todo[r])
           m == purposeToMemberName(getPurpose(purpose[o]))
       IN  /\ member' = [member EXCEPT ![r] = m]
           /\ IF Skips(m)
              THEN todo' = [todo EXCEPT ![r] = Tail(@)] /\ UNCHANGED pc
              ELSE Goto(r, "writing") /\ UNCHANGED todo
    /\ UNCHANGED <<up, busVars, serverVars, asked, value, served, calm>>

\* Mutant: a version that is there already stays.
keepFirst(f, m, v) == [f EXCEPT ![m] = IF @ = NA THEN v ELSE @]

\* setValue of a member of the shared instance.
setValue(f, m, v) == [f EXCEPT ![m] = v]

\* The member of the instance has version v now, and the loop goes on.
Write(r, v) ==
    /\ field' = setValue(field, member[r], v)
    /\ todo' = [todo EXCEPT ![r] = Tail(@)]
    /\ Goto(r, "linking")
    /\ value' = [value EXCEPT ![r] = NA]
    /\ Disturb(Requests \ {r})

\* It reads the version, whatever it is; supplementOrUpdate sets a member that the
\* instance has and goes on to add one that it has not.
WriteVersion(r) ==
    /\ At(r, "writing")
    /\ LET v == version[Head(todo[r])]
       IN  \/ member[r] \in members /\ Write(r, v)
           \/ /\ member[r] \notin members
              /\ value' = [value EXCEPT ![r] = v]
              /\ Goto(r, "adding")
              /\ UNCHANGED <<field, todo, calm>>
    /\ UNCHANGED <<up, busVars, server, members, asked, member, served>>

\* supplement adds the member.
supplement(r) ==
    /\ At(r, "adding") /\ member[r] \notin members
    /\ members' = members \cup {member[r]}
    /\ Write(r, value[r])
    /\ UNCHANGED <<up, busVars, server, asked, member, served>>

\* Another request has added it since the test: a logic_error, which linkVersions
\* does not catch, nor does anything above it.
supplementThrows(r) ==
    /\ At(r, "adding") /\ member[r] \in members
    /\ up' = FALSE
    /\ UNCHANGED <<busVars, serverVars, requestVars>>

\* The loops are over: getField of the instance, or no instance to ask.
Serve(r) ==
    /\ \/ At(r, "linking") /\ todo[r] = <<>>
          /\ served' = [served EXCEPT ![r] = field[asked[r]]]
       \/ At(r, "absent") /\ served' = [served EXCEPT ![r] = NA]
    /\ Goto(r, "served")
    /\ UNCHANGED <<up, busVars, serverVars, asked, todo, member, value, calm>>

\* The thread takes the next request.
Again(r) ==
    /\ At(r, "served")
    /\ Goto(r, "idle")
    /\ served' = [served EXCEPT ![r] = NA]
    /\ member' = [member EXCEPT ![r] = "none"]
    /\ UNCHANGED <<up, busVars, serverVars, asked, todo, value, calm>>

\* Nothing happens in a process that is gone.
Gone == ~up /\ UNCHANGED vars

Next ==
    \/ PublishVersions \/ PublishServer
    \/ \E o \in Objects : Signal(o)
    \/ \E r \in Requests :
          \/ \E f \in Fields : Start(r, f)
          \/ ReadPurpose(r) \/ WriteVersion(r) \/ supplement(r) \/ supplementThrows(r)
          \/ Serve(r) \/ Again(r)
    \/ Gone

Spec == Init /\ [][Next]_vars
-----------------------------------------------------------------------------
(***************************************************************************)
(* Properties.                                                             *)
(***************************************************************************)
Wanted(f) == IF f = "BmcVersion" THEN "BMC" ELSE "Host"
Having(f) == {o \in Objects : purpose[o] = Wanted(f)}

\* A version that is answered was shown by an object of the right purpose,
\* however requests, publications and signals interleave in the shared
\* instance (linkVersions, getPurpose).
ServedWasShown ==
    \A r \in Requests :
        pc[r] = "served" /\ served[r] # NA =>
            \E o \in Having(asked[r]) : served[r] \in showed[o]

\* With no interference during the request the answer is that of the last
\* object of the right purpose in the order of hashes -- also where that one
\* has no version and an earlier one has: linkVersions writes "N/A" over it.
LastWinsIfCalm ==
    \A r \in Requests :
        pc[r] = "served" /\ calm[r] =>
            LET mine == {i \in DOMAIN instances : instances[i] \in Having(asked[r])}
            IN  IF server /\ mine # {}
                THEN \E i \in mine : /\ \A j \in mine : j <= i
                                     /\ served[r] = version[instances[i]]
                ELSE served[r] = NA
=============================================================================
