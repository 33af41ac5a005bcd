----------------------------- MODULE AOIProofs ------------------------------
(***************************************************************************)
(* The grid of gcore/aoi.go, for any size of the world and of its cells:   *)
(* what AddEntity, RemoveEntity and MoveEntity keep, that nearby then      *)
(* finds exactly the neighbours; and, for the loops that call them, the    *)
(* induction over a finite set that says what a fold computes.             *)
(***************************************************************************)
EXTENDS AOI, FiniteSetsExt, FiniteSetTheorems, WellFoundedInduction, TLAPS

(***************************************************************************)
(* A grid is right for a map of positions: there is a cell for every       *)
(* position, no other, and it holds the entities in it.                    *)
(***************************************************************************)
Place == Int \X Int

CellsOK(cells, pos) ==
    /\ DOMAIN cells = {cellFor(pos[id]) : id \in DOMAIN pos}
    /\ \A cell \in DOMAIN cells :
          cells[cell] = {id \in DOMAIN pos : cellFor(pos[id]) = cell}

EntitiesOK(entities, pos) ==
    /\ DOMAIN entities = DOMAIN pos
    /\ \A id \in DOMAIN pos :
          entities[id].position = pos[id] /\ entities[id].cell = cellFor(pos[id])

GridOK(g, pos) == EntitiesOK(g.entities, pos) /\ CellsOK(g.cells, pos)

\* Looking up a cell finds the entities whose positions are in it.
LEMMA CellContent ==
    ASSUME NEW cells, NEW pos, CellsOK(cells, pos), NEW cell
    PROVE  UNION Lookup(cells, cell) = {id \in DOMAIN pos : cellFor(pos[id]) = cell}
<1>1. CASE cell \in DOMAIN cells
  <2>1. Lookup(cells, cell) = {cells[cell]}  BY <1>1 DEF Lookup
  <2> QED  BY <2>1, <1>1 DEF CellsOK
<1>2. CASE cell \notin DOMAIN cells
  <2>1. Lookup(cells, cell) = {}  BY <1>2 DEF Lookup
  <2> QED  BY <2>1, <1>2 DEF CellsOK
<1> QED  BY <1>1, <1>2

\* addToCell: the cells are right with one entity more.
LEMMA CellsAdd ==
    ASSUME NEW cells, NEW pos, CellsOK(cells, pos), NEW id, id \notin DOMAIN pos, NEW p
    PROVE  CellsOK(addToCell(cells, cellFor(p), id), Put(pos, id, p))
<1> DEFINE cell == cellFor(p)
           in == {o \in DOMAIN pos : cellFor(pos[o]) = cell}
           new == Put(cells, cell, in \cup {id})
           pos2 == Put(pos, id, p)
<1>1. addToCell(cells, cell, id) = new
  <2>1. UNION Lookup(cells, cell) = in  BY CellContent
  <2> HIDE DEF in, cell
  <2> QED  BY <2>1 DEF addToCell
<1>2. /\ DOMAIN pos2 = DOMAIN pos \cup {id} /\ pos2[id] = p
      /\ \A o \in DOMAIN pos : pos2[o] = pos[o]
  BY DEF Put
<1>3. /\ DOMAIN new = DOMAIN cells \cup {cell} /\ new[cell] = in \cup {id}
      /\ \A k \in DOMAIN cells \ {cell} : new[k] = cells[k]
  BY DEF Put
<1> HIDE DEF new, pos2
<1>4. DOMAIN new = {cellFor(pos2[o]) : o \in DOMAIN pos2}
  BY <1>2, <1>3 DEF CellsOK
<1>5. ASSUME NEW k \in DOMAIN new
      PROVE  new[k] = {o \in DOMAIN pos2 : cellFor(pos2[o]) = k}
  <2>1. CASE k = cell  BY <2>1, <1>2, <1>3
  <2>2. CASE k # cell
    <3>1. new[k] = {o \in DOMAIN pos : cellFor(pos[o]) = k}
      BY <2>2, <1>3, <1>5 DEF CellsOK
    <3> QED  BY <3>1, <2>2, <1>2
  <2> QED  BY <2>1, <2>2
<1>6. CellsOK(new, pos2)  BY <1>4, <1>5 DEF CellsOK
<1> QED  BY <1>1, <1>6 DEF pos2

\* removeFromCell: the cells are right with one entity less, and a cell that
\* becomes empty has no entry.
LEMMA CellsRemove ==
    ASSUME NEW cells, NEW pos, CellsOK(cells, pos), NEW id \in DOMAIN pos
    PROVE  CellsOK(removeFromCell(cells, cellFor(pos[id]), id), Delete(pos, {id}))
<1> DEFINE cell == cellFor(pos[id])
           in == {o \in DOMAIN pos : cellFor(pos[o]) = cell}
           rest == in \ {id}
           new == IF rest = {} THEN Delete(cells, {cell}) ELSE Put(cells, cell, rest)
           pos2 == Delete(pos, {id})
<1>1. removeFromCell(cells, cell, id) = new
  <2>1. UNION Lookup(cells, cell) = in  BY CellContent
  <2> HIDE DEF in, cell
  <2> QED  BY <2>1 DEF removeFromCell
<1>2. /\ DOMAIN pos2 = DOMAIN pos \ {id}
      /\ \A o \in DOMAIN pos2 : pos2[o] = pos[o]
  BY DEF Delete
<1>3. cell \in DOMAIN cells  BY DEF CellsOK
<1>4. /\ DOMAIN new = IF rest = {} THEN DOMAIN cells \ {cell} ELSE DOMAIN cells
      /\ rest # {} => new[cell] = rest
      /\ \A k \in DOMAIN cells \ {cell} : new[k] = cells[k]
  BY <1>3 DEF Put, Delete
<1> HIDE DEF new, pos2
<1>5. DOMAIN new = {cellFor(pos2[o]) : o \in DOMAIN pos2}
  <2>1. ASSUME NEW k \in DOMAIN new PROVE \E o \in DOMAIN pos2 : cellFor(pos2[o]) = k
    <3>1. CASE k = cell  BY <3>1, <2>1, <1>2, <1>4
    <3>2. CASE k # cell
      <4>1. PICK o \in DOMAIN pos : cellFor(pos[o]) = k
        BY <2>1, <1>4, <3>2 DEF CellsOK
      <4> QED  BY <4>1, <3>2, <1>2
    <3> QED  BY <3>1, <3>2
  <2>2. ASSUME NEW o \in DOMAIN pos2 PROVE cellFor(pos2[o]) \in DOMAIN new
    <3>1. cellFor(pos[o]) \in DOMAIN cells  BY <2>2, <1>2 DEF CellsOK
    <3>2. cellFor(pos[o]) = cell => o \in rest  BY <2>2, <1>2
    <3> QED  BY <3>1, <3>2, <2>2, <1>2, <1>4
  <2> QED  BY <2>1, <2>2
<1>6. ASSUME NEW k \in DOMAIN new
      PROVE  new[k] = {o \in DOMAIN pos2 : cellFor(pos2[o]) = k}
  <2>1. CASE k = cell  BY <2>1, <1>2, <1>4, <1>6
  <2>2. CASE k # cell
    <3>1. new[k] = {o \in DOMAIN pos : cellFor(pos[o]) = k}
      BY <2>2, <1>4, <1>6 DEF CellsOK
    <3> QED  BY <3>1, <2>2, <1>2
  <2> QED  BY <2>1, <2>2
<1>7. CellsOK(new, pos2)  BY <1>5, <1>6 DEF CellsOK
<1> QED  BY <1>1, <1>7 DEF pos2

\* The empty grid is right for no entities.
LEMMA GridEmpty == GridOK(EmptyGrid, Empty)
BY DEF GridOK, EntitiesOK, CellsOK, EmptyGrid, Empty

\* AddEntity enters a new entity.
LEMMA GridAdd ==
    ASSUME NEW g, NEW pos, GridOK(g, pos), NEW id, id \notin DOMAIN pos, NEW p
    PROVE  GridOK(AddEntity(g, id, p), Put(pos, id, p))
<1>1. CellsOK(addToCell(g.cells, cellFor(p), id), Put(pos, id, p))
  BY CellsAdd DEF GridOK
<1>2. EntitiesOK(Put(g.entities, id, [position |-> p, cell |-> cellFor(p)]), Put(pos, id, p))
  BY DEF GridOK, EntitiesOK, Put
<1> QED  BY <1>1, <1>2 DEF GridOK, AddEntity

\* RemoveEntity removes a known one.
LEMMA GridRemove ==
    ASSUME NEW g, NEW pos, GridOK(g, pos), NEW id \in DOMAIN pos
    PROVE  GridOK(RemoveEntity(g, id), Delete(pos, {id}))
<1>1. g.entities[id].cell = cellFor(pos[id])  BY DEF GridOK, EntitiesOK
<1>2. CellsOK(removeFromCell(g.cells, g.entities[id].cell, id), Delete(pos, {id}))
  BY <1>1, CellsRemove DEF GridOK
<1>3. EntitiesOK(Delete(g.entities, {id}), Delete(pos, {id}))
  BY DEF GridOK, EntitiesOK, Delete
<1> QED  BY <1>2, <1>3 DEF GridOK, RemoveEntity

\* MoveEntity moves a known one, into another cell or within its own.
LEMMA GridMove ==
    ASSUME NEW g, NEW pos, GridOK(g, pos), NEW id \in DOMAIN pos, NEW p
    PROVE  GridOK(MoveEntity(g, id, p), Put(pos, id, p))
<1> DEFINE old == g.entities[id].cell
           gone == Delete(pos, {id})
<1>1. old = cellFor(pos[id])  BY DEF GridOK, EntitiesOK
<1>2. EntitiesOK(Put(g.entities, id, [position |-> p, cell |-> cellFor(p)]), Put(pos, id, p))
  BY DEF GridOK, EntitiesOK, Put
<1>3. CASE old = cellFor(p)
  <2>1. /\ DOMAIN Put(pos, id, p) = DOMAIN pos
        /\ \A o \in DOMAIN pos : cellFor(Put(pos, id, p)[o]) = cellFor(pos[o])
    BY <1>1, <1>3 DEF Put
  <2>2. CellsOK(g.cells, Put(pos, id, p))
    BY <2>1 DEF GridOK, CellsOK
  <2> QED  BY <2>2, <1>2, <1>3 DEF GridOK, MoveEntity
<1>4. CASE old # cellFor(p)
  <2>1. CellsOK(removeFromCell(g.cells, old, id), gone)
    BY <1>1, CellsRemove DEF GridOK
  <2>2. id \notin DOMAIN gone  BY DEF Delete
  <2>3. CellsOK(addToCell(removeFromCell(g.cells, old, id), cellFor(p), id), Put(gone, id, p))
    <3> HIDE DEF gone, old
    <3> QED  BY <2>1, <2>2, CellsAdd
  <2>4. Put(gone, id, p) = Put(pos, id, p)  BY DEF Put, Delete
  <2> QED  BY <2>3, <2>4, <1>2, <1>4 DEF GridOK, MoveEntity
<1> QED  BY <1>3, <1>4

\* Cells of two places that are at most one apart, in each direction.
LEMMA AdjacentCells ==
    ASSUME NEW p \in Place, NEW q \in Place
    PROVE  /\ cellFor(p) = <<cellFor(p)[1], cellFor(p)[2]>>
           /\ cellFor(p)[1] \in Int /\ cellFor(p)[2] \in Int
           /\ adjacent(p, q) <=>
                /\ cellFor(p)[1] \in (cellFor(q)[1] - 1)..(cellFor(q)[1] + 1)
                /\ cellFor(p)[2] \in (cellFor(q)[2] - 1)..(cellFor(q)[2] + 1)
<1>1. \A r \in Place : r[1] \div CellWidth \in Int /\ r[2] \div CellHeight \in Int
  BY AOIAssumption DEF Place
<1>2. \A a, b \in Int : a - b \in -1..1 <=> a \in (b - 1)..(b + 1)
  OBVIOUS
<1> HIDE DEF Place
<1> QED  BY <1>1, <1>2 DEF cellFor, adjacent

\* A right grid answers as the positions imply: GridExact of module AOI.
LEMMA GridAnswers ==
    ASSUME NEW g, NEW pos, GridOK(g, pos), \A id \in DOMAIN pos : pos[id] \in Place
    PROVE  GridExact(g, pos)
<1>1. ASSUME NEW id \in DOMAIN pos
      PROVE  nearby(g, id) = {o \in DOMAIN pos \ {id} : adjacent(pos[o], pos[id])}
  <2> DEFINE cell == cellFor(pos[id])
             X == (cell[1] - 1)..(cell[1] + 1)
             Y == (cell[2] - 1)..(cell[2] + 1)
             Found(k) == UNION Lookup(g.cells, k)
  <2>1. g.entities[id].cell = cell  BY DEF GridOK, EntitiesOK
  <2>2. \A k, o : o \in Found(k) <=> o \in DOMAIN pos /\ cellFor(pos[o]) = k
    BY CellContent DEF GridOK
  <2>3. nearby(g, id) = (UNION {Found(<<x, y>>) : x \in X, y \in Y}) \ {id}
    BY <2>1 DEF nearby
  <2> HIDE DEF X, Y, Found
  <2>4. \A o : o \in nearby(g, id) <=> o # id /\ \E x \in X, y \in Y : o \in Found(<<x, y>>)
    <3> DEFINE All == {Found(<<x, y>>) : x \in X, y \in Y}
    <3>1. \A S : S \in All <=> \E x \in X, y \in Y : S = Found(<<x, y>>)
      OBVIOUS
    <3>2. nearby(g, id) = (UNION All) \ {id}  BY <2>3
    <3> HIDE DEF All
    <3>3. \A o : o \in UNION All <=> \E x \in X, y \in Y : o \in Found(<<x, y>>)
      <4> TAKE o
      <4>1. ASSUME o \in UNION All PROVE \E x \in X, y \in Y : o \in Found(<<x, y>>)
        <5>1. PICK S \in All : o \in S  BY <4>1
        <5>2. PICK x \in X, y \in Y : S = Found(<<x, y>>)  BY <5>1, <3>1
        <5> QED  BY <5>1, <5>2
      <4>2. ASSUME NEW x \in X, NEW y \in Y, o \in Found(<<x, y>>) PROVE o \in UNION All
        <5>1. Found(<<x, y>>) \in All  BY <3>1, <4>2
        <5> QED  BY <5>1, <4>2
      <4> QED  BY <4>1, <4>2
    <3> QED  BY <3>2, <3>3
  <2>5. ASSUME NEW o \in DOMAIN pos
        PROVE  (\E x \in X, y \in Y : o \in Found(<<x, y>>)) <=> adjacent(pos[o], pos[id])
    <3> DEFINE k == cellFor(pos[o])
    <3>1. k = <<k[1], k[2]>> /\ (adjacent(pos[o], pos[id]) <=> k[1] \in X /\ k[2] \in Y)
      BY AdjacentCells DEF X, Y
    <3>2. \A x \in X, y \in Y : o \in Found(<<x, y>>) <=> k = <<x, y>>
      BY <2>2
    <3> HIDE DEF k
    <3>3. (\E x \in X, y \in Y : k = <<x, y>>) <=> k[1] \in X /\ k[2] \in Y
      BY <3>1
    <3> QED  BY <3>1, <3>2, <3>3
  <2>6. \A o \in nearby(g, id) : o \in DOMAIN pos
    BY <2>2, <2>4
  <2> QED  BY <2>4, <2>5, <2>6
<1>2. \A k \in DOMAIN g.cells : g.cells[k] # {}
  BY DEF GridOK, CellsOK
<1>3. UNION {g.cells[k] : k \in DOMAIN g.cells} = DOMAIN pos
  <2>1. \A id \in DOMAIN pos : cellFor(pos[id]) \in DOMAIN g.cells
    BY DEF GridOK, CellsOK
  <2>2. \A k \in DOMAIN g.cells : \A id : id \in g.cells[k] <=>
           id \in DOMAIN pos /\ cellFor(pos[id]) = k
    BY DEF GridOK, CellsOK
  <2> QED  BY <2>1, <2>2
<1> QED  BY <1>1, <1>2, <1>3 DEF GridExact, GridOK, EntitiesOK

-----------------------------------------------------------------------------
(***************************************************************************)
(* The grid of a map of positions.  A right grid is this one and no other, *)
(* so the result of several calls does not depend on their order.          *)
(***************************************************************************)
GridOf(pos) ==
    [entities |-> [id \in DOMAIN pos |-> [position |-> pos[id], cell |-> cellFor(pos[id])]],
     cells    |-> [cell \in {cellFor(pos[id]) : id \in DOMAIN pos} |->
                      {id \in DOMAIN pos : cellFor(pos[id]) = cell}]]

IsMap(f) == f = [x \in DOMAIN f |-> f[x]]

\* The form of a grid: two maps, one of them to positions with their cells.
IsGrid(g) ==
    /\ g = [entities |-> g.entities, cells |-> g.cells]
    /\ g.entities = [id \in DOMAIN g.entities |->
                        [position |-> g.entities[id].position, cell |-> g.entities[id].cell]]
    /\ IsMap(g.cells)

\* The grid of a map of positions is right for it.
LEMMA GridOfOK == ASSUME NEW pos PROVE GridOK(GridOf(pos), pos) /\ IsGrid(GridOf(pos))
<1>1. EntitiesOK(GridOf(pos).entities, pos)  BY DEF EntitiesOK, GridOf
<1>2. CellsOK(GridOf(pos).cells, pos)  BY DEF CellsOK, GridOf
<1>3. IsGrid(GridOf(pos))  BY DEF IsGrid, IsMap, GridOf
<1> QED  BY <1>1, <1>2, <1>3 DEF GridOK

\* A right grid is the grid of the positions.
LEMMA GridUnique == ASSUME NEW g, NEW pos, IsGrid(g), GridOK(g, pos) PROVE g = GridOf(pos)
<1>1. g.entities = [id \in DOMAIN pos |-> [position |-> pos[id], cell |-> cellFor(pos[id])]]
  BY DEF IsGrid, GridOK, EntitiesOK
<1>2. g.cells = [cell \in {cellFor(pos[id]) : id \in DOMAIN pos} |->
                    {id \in DOMAIN pos : cellFor(pos[id]) = cell}]
  BY DEF IsGrid, IsMap, GridOK, CellsOK
<1> QED  BY <1>1, <1>2 DEF IsGrid, GridOf

\* Put, Delete and the operations on cells make maps.
LEMMA MapForm ==
    ASSUME NEW f, NEW k, NEW v, NEW D, NEW id
    PROVE  /\ IsMap(Put(f, k, v)) /\ IsMap(Delete(f, D))
           /\ IsMap(addToCell(f, k, id)) /\ IsMap(removeFromCell(f, k, id))
<1>1. \A w : IsMap(Put(f, k, w))  BY DEF IsMap, Put
<1>2. \A E : IsMap(Delete(f, E))  BY DEF IsMap, Delete
<1>3. IsMap(addToCell(f, k, id))  BY <1>1 DEF addToCell
<1>4. IsMap(removeFromCell(f, k, id))
  <2> DEFINE rest == (UNION Lookup(f, k)) \ {id}
  <2>1. removeFromCell(f, k, id) = IF rest = {} THEN Delete(f, {k}) ELSE Put(f, k, rest)
    BY DEF removeFromCell
  <2> HIDE DEF rest
  <2> QED  BY <2>1, <1>1, <1>2
<1> QED  BY <1>1, <1>2, <1>3, <1>4

\* AddEntity on the grid of a map of positions, ...
LEMMA AddExact ==
    ASSUME NEW pos, NEW id, id \notin DOMAIN pos, NEW p
    PROVE  AddEntity(GridOf(pos), id, p) = GridOf(Put(pos, id, p))
<1> DEFINE g == AddEntity(GridOf(pos), id, p)
<1>1. GridOK(g, Put(pos, id, p))  BY GridOfOK, GridAdd
<1>2. IsGrid(g)
  <2>1. IsGrid(GridOf(pos))  BY GridOfOK
  <2>2. IsMap(g.cells)  BY MapForm DEF AddEntity
  <2> QED  BY <2>1, <2>2 DEF IsGrid, AddEntity, Put
<1> HIDE DEF g
<1>3. g = GridOf(Put(pos, id, p))  BY <1>1, <1>2, GridUnique
<1> QED  BY <1>3 DEF g

\* ... RemoveEntity ...
LEMMA RemoveExact ==
    ASSUME NEW pos, NEW id \in DOMAIN pos
    PROVE  RemoveEntity(GridOf(pos), id) = GridOf(Delete(pos, {id}))
<1> DEFINE g == RemoveEntity(GridOf(pos), id)
<1>1. GridOK(g, Delete(pos, {id}))  BY GridOfOK, GridRemove
<1>2. IsGrid(g)
  <2>1. IsGrid(GridOf(pos))  BY GridOfOK
  <2>2. IsMap(g.cells)  BY MapForm DEF RemoveEntity
  <2> QED  BY <2>1, <2>2 DEF IsGrid, RemoveEntity, Delete
<1> HIDE DEF g
<1>3. g = GridOf(Delete(pos, {id}))  BY <1>1, <1>2, GridUnique
<1> QED  BY <1>3 DEF g

\* ... and MoveEntity.
LEMMA MoveExact ==
    ASSUME NEW pos, NEW id \in DOMAIN pos, NEW p
    PROVE  MoveEntity(GridOf(pos), id, p) = GridOf(Put(pos, id, p))
<1> DEFINE g == MoveEntity(GridOf(pos), id, p)
<1>1. GridOK(g, Put(pos, id, p))  BY GridOfOK, GridMove
<1>2. IsGrid(g)
  <2>1. IsGrid(GridOf(pos))  BY GridOfOK
  <2>2. IsMap(g.cells)  BY <2>1, MapForm DEF MoveEntity, IsGrid
  <2> QED  BY <2>1, <2>2 DEF IsGrid, MoveEntity, Put
<1> HIDE DEF g
<1>3. g = GridOf(Put(pos, id, p))  BY <1>1, <1>2, GridUnique
<1> QED  BY <1>3 DEF g

-----------------------------------------------------------------------------
(***************************************************************************)
(* Folds over a finite set.                                                *)
(***************************************************************************)
\* A family of sets that has the empty set, and a nonempty set if it has the set
\* without a certain one of its members, has every finite set.
LEMMA SetInduction ==
    ASSUME NEW S, IsFiniteSet(S), NEW P, {} \in P,
           \A T \in SUBSET S : T # {} => \E x \in T : T \ {x} \in P => T \in P
    PROVE  SUBSET S \subseteq P
<1> DEFINE Rest == (SUBSET S) \ P
           D == SUBSET S
           Less == StrictSubsetOrdering(S)
<1> SUFFICES ASSUME Rest # {} PROVE FALSE
  OBVIOUS
<1>1. IsWellFoundedOn(Less, D) /\ Rest # {} /\ Rest \subseteq D
  <2>1. FiniteSubsetsOf(S) = D  BY FS_FiniteSubsetsOfFinite
  <2>2. IsWellFoundedOn(Less, FiniteSubsetsOf(S))  BY FS_StrictSubsetOrderingWellFounded
  <2>3. IsWellFoundedOn(Less, D)
    <3> HIDE DEF Less, D
    <3> QED  BY <2>1, <2>2
  <2> QED  BY <2>3
<1>2. PICK T \in Rest : \A U \in Rest : ~ (<<U, T>> \in Less)
  <2> HIDE DEF Rest, D, Less
  <2>1. \E T \in Rest : \A U \in Rest : ~ (<<U, T>> \in Less)  BY ONLY <1>1, WFMin, Zenon
  <2> QED  BY <2>1
<1>3. PICK x \in T : T \ {x} \in P => T \in P
  <2>0. {} \in P /\ T \in SUBSET S /\ T \notin P  OBVIOUS
  <2>1. T \in SUBSET S /\ T # {}  BY ONLY <2>0, Zenon
  <2>2. \E x \in T : T \ {x} \in P => T \in P
    <3> HIDE DEF Rest
    <3> QED  BY <2>1, Zenon
  <2> QED  BY <2>2
<1>4. <<T \ {x}, T>> \in Less  BY <1>2, <1>3 DEF StrictSubsetOrdering
<1>5. T \ {x} \in P  BY <1>2, <1>4
<1> QED  BY <1>2, <1>3, <1>5

\* The member that FoldSet takes next.
Chosen(T) == CHOOSE x \in T : TRUE

\* Two functions on the subsets of a finite set that agree on the empty set, and
\* on a set whenever they do without the member chosen from it, agree.
LEMMA SameFold ==
    ASSUME NEW S, IsFiniteSet(S), NEW f, NEW g, f[{}] = g[{}],
           \A T \in SUBSET S : T # {} =>
              (f[T \ {Chosen(T)}] = g[T \ {Chosen(T)}] => f[T] = g[T])
    PROVE  f[S] = g[S]
<1> DEFINE P == {T \in SUBSET S : f[T] = g[T]}
<1>1. {} \in P  OBVIOUS
<1>2. ASSUME NEW T \in SUBSET S, T # {} PROVE \E x \in T : T \ {x} \in P => T \in P
  <2>1. Chosen(T) \in T  BY <1>2 DEF Chosen
  <2>2. T \ {Chosen(T)} \in P => T \in P  BY <1>2
  <2> QED  BY <2>1, <2>2
<1> HIDE DEF P
<1>3. SUBSET S \subseteq P  BY <1>1, <1>2, SetInduction
<1> QED  BY <1>3 DEF P

=============================================================================
