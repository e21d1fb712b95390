-------------------------------- MODULE Rooms --------------------------------
(* The relay of calls (valanium-server/src/ws/calls.ts): rooms of two slots  *)
(* in memory. A room is closed as a whole; what `socket.end` does to the     *)
(* sockets that sat in it is up to the module that extends this one.         *)
EXTENDS Naturals, FiniteSets, Functions, Tables

CONSTANTS
    Room,      \* room names
    Nobody,    \* an empty slot
    MaxRooms,
    LoneTtl, PairTtl, CallTtl  \* how long a room of one and of two may be idle, and exist

ASSUME RoomsAssumption == {MaxRooms, LoneTtl, PairTtl, CallTtl} \subseteq Nat

VARIABLES
    rooms,    \* CallRelay.rooms
    members   \* CallRelay.members: socket -> room and role

roomVars == <<rooms, members>>
Role == {0, 1}

Seated(id) == {rooms[id].slots[r] : r \in Role} \ {Nobody}
Joined(s) == s \in DOMAIN members
Old(id, now) == now > rooms[id].created + CallTtl
Stale(now) ==
    {id \in DOMAIN rooms :
        \/ now > rooms[id].last + (IF Nobody \in {rooms[id].slots[r] : r \in Role} THEN LoneTtl ELSE PairTtl)
        \/ Old(id, now)}

\* close() of several rooms: the room goes first, so that the close handlers of
\* its sockets find nothing left to do.
CloseRooms(ids) ==
    /\ rooms' = Restrict(rooms, DOMAIN rooms \ ids)
    /\ members' = Restrict(members, DOMAIN members \ UNION {Seated(id) : id \in ids})

RoomsOf(S) == {members[s].room : s \in S \intersect DOMAIN members}
Parted(S) == S \union UNION {Seated(id) : id \in RoomsOf(S)}

\* join: old rooms are swept, then the slot must be free, or a room.
Left(now) == Restrict(rooms, DOMAIN rooms \ Stale(now))
Swept(now) == UNION {Seated(id) : id \in Stale(now)}

Joins(s, id, role, now) ==
    /\ ~Joined(s)
    /\ IF id \in DOMAIN Left(now) THEN rooms[id].slots[role] = Nobody
       ELSE Cardinality(DOMAIN Left(now)) < MaxRooms

\* Mutant: whoever joins takes the slot.
Joins_Taken(s, id, role, now) ==
    ~Joined(s) /\ (id \in DOMAIN Left(now) \/ Cardinality(DOMAIN Left(now)) < MaxRooms)

Seat(s, id, role, now) ==
    IF id \in DOMAIN Left(now) THEN [rooms[id] EXCEPT !.slots[role] = s, !.last = now]
    ELSE [slots |-> [r \in Role |-> IF r = role THEN s ELSE Nobody], created |-> now, last |-> now]

Join(s, id, role, now) ==
    /\ Joins(s, id, role, now)
    /\ rooms' = Put(Left(now), id, Seat(s, id, role, now))
    /\ members' = Put(Restrict(members, DOMAIN members \ Swept(now)),
                      s, [room |-> id, role |-> role])

\* A frame within the limits of size and rate, to a peer that keeps up.
Media(s, now) ==
    /\ Joined(s) /\ ~Old(members[s].room, now)
    /\ rooms' = [rooms EXCEPT ![members[s].room].last = now]
    /\ UNCHANGED members

RoomsInit == rooms = << >> /\ members = << >>
-----------------------------------------------------------------------------
RoomsTypeOK ==
    /\ DOMAIN rooms \subseteq Room /\ Cardinality(DOMAIN rooms) <= MaxRooms
    /\ \A id \in DOMAIN rooms :
          /\ DOMAIN rooms[id].slots = Role
          /\ {rooms[id].created, rooms[id].last} \subseteq Nat

\* A socket that joined sits in its slot of a room that exists, and whoever
\* sits in a room is a member: no slot is held by a socket that is gone, no
\* socket by a room that is.
SeatsAgree ==
    /\ \A s \in DOMAIN members :
          members[s].room \in DOMAIN rooms /\ rooms[members[s].room].slots[members[s].role] = s
    /\ \A id \in DOMAIN rooms :
          Seated(id) # {} /\ \A s \in Seated(id) : Joined(s) /\ members[s].room = id
=============================================================================
