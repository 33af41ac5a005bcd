-------------------------------- MODULE AOI --------------------------------
(***************************************************************************)
(* The area-of-interest grid of gcore/aoi.go: entities at positions of a   *)
(* world that is divided into cells.  A grid is a value, a record of the   *)
(* two maps of AOIManager; every method runs under the lock of the manager *)
(* and is an operator that returns the next grid.                          *)
(*                                                                         *)
(* A position is a pair of whole numbers: the code's are floating point,   *)
(* but only their cell and the borders of the world matter to it.          *)
(***************************************************************************)
EXTENDS Integers, GoMap

CONSTANTS
    WorldWidth, WorldHeight,    \* the world reaches from 0 to these, excluded
    CellWidth, CellHeight       \* size of a cell

ASSUME AOIAssumption ==
    /\ WorldWidth \in Nat \ {0} /\ WorldHeight \in Nat \ {0}
    /\ CellWidth \in Nat \ {0} /\ CellHeight \in Nat \ {0}

\* A position with a coordinate that is infinite or not a number.
NotFinite == <<>>

\* The positions for which cellFor returns no error ...
inWorld(p) ==
    /\ p # NotFinite
    /\ p[1] >= 0 /\ p[1] < WorldWidth
    /\ p[2] >= 0 /\ p[2] < WorldHeight

\* ... and their cell.
cellFor(p) == <<p[1] \div CellWidth, p[2] \div CellHeight>>

EmptyGrid == [entities |-> Empty, cells |-> Empty]

\* A cell has an entry only while an entity is in it.
addToCell(cells, cell, id) == Put(cells, cell, (UNION Lookup(cells, cell)) \cup {id})

removeFromCell(cells, cell, id) ==
    LET rest == (UNION Lookup(cells, cell)) \ {id} IN
    IF rest = {} THEN Delete(cells, {cell}) ELSE Put(cells, cell, rest)

\* The entities in the nine cells around an entity, without itself.
nearby(g, id) ==
    LET cell == g.entities[id].cell IN
    (UNION {UNION Lookup(g.cells, <<x, y>>) : x \in (cell[1] - 1)..(cell[1] + 1),
                                              y \in (cell[2] - 1)..(cell[2] + 1)}) \ {id}

\* AddEntity for a new entity at a position in the world.
AddEntity(g, id, p) ==
    [entities |-> Put(g.entities, id, [position |-> p, cell |-> cellFor(p)]),
     cells    |-> addToCell(g.cells, cellFor(p), id)]

RemoveEntity(g, id) ==
    [entities |-> Delete(g.entities, {id}),
     cells    |-> removeFromCell(g.cells, g.entities[id].cell, id)]

\* MoveEntity for a known entity and a position in the world; the entities that
\* come into view and go out of it are the differences of nearby.
MoveEntityKeepsCell(g, id, p) ==        \* mutant: the old cell is not left
    [entities |-> Put(g.entities, id, [position |-> p, cell |-> cellFor(p)]),
     cells    |-> addToCell(g.cells, cellFor(p), id)]
MoveEntity(g, id, p) ==
    LET old == g.entities[id].cell IN
    [entities |-> Put(g.entities, id, [position |-> p, cell |-> cellFor(p)]),
     cells    |-> IF old = cellFor(p) THEN g.cells
                  ELSE addToCell(removeFromCell(g.cells, old, id), cellFor(p), id)]
Entered(g, id, p) == nearby(MoveEntity(g, id, p), id) \ nearby(g, id)
Left(g, id, p) == nearby(g, id) \ nearby(MoveEntity(g, id, p), id)

-----------------------------------------------------------------------------
\* What a grid must be for the positions it was given: the cells are those of
\* the positions, none is empty, and nearby is the distance in cells.
adjacent(p, q) ==
    /\ (p[1] \div CellWidth) - (q[1] \div CellWidth) \in -1..1
    /\ (p[2] \div CellHeight) - (q[2] \div CellHeight) \in -1..1

GridExact(g, position) ==
    /\ DOMAIN g.entities = DOMAIN position
    /\ \A id \in DOMAIN position : g.entities[id].position = position[id]
    /\ \A id \in DOMAIN position :
          nearby(g, id) = {o \in DOMAIN position \ {id} : adjacent(position[o], position[id])}
    /\ \A cell \in DOMAIN g.cells : g.cells[cell] # {}
    /\ UNION {g.cells[cell] : cell \in DOMAIN g.cells} = DOMAIN position

=============================================================================
