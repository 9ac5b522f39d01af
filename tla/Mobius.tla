------------------------------- MODULE Mobius -------------------------------
(***************************************************************************)
(* The Mobius address space of living_memoryv2 (mobius.py): every memory   *)
(* has a cell (iu, iv, iw) of a band that is turned over where iu wraps    *)
(* round; recall looks into the cells around those it has found.           *)
(***************************************************************************)
EXTENDS Integers

CONSTANTS USize, VSize, WSize   \* 32, 16 and 8 in the code

ASSUME MobiusAssumption == {USize, VSize, WSize} \subseteq Nat \ {0}

Cells == [iu : 0 .. USize - 1, iv : 0 .. VSize - 1, iw : 0 .. WSize - 1]

Lower(x, y) == IF x < y THEN x ELSE y
Higher(x, y) == IF x < y THEN y ELSE x
Abs(x) == IF x < 0 THEN -x ELSE x

\* _reflect_axis: beyond an edge the axis runs back.
Reflect(v, size) ==
    IF size <= 1 THEN 0
    ELSE LET period == 2 * (size - 1)
             position == v % period
         IN  IF position >= size THEN period - position ELSE position

\* _wrap
Wrap(u, v, w) ==
    LET turned == (u \div USize) % 2 = 1
    IN  [iu |-> u % USize,
         iv |-> Reflect(IF turned THEN VSize - 1 - v ELSE v, VSize),
         iw |-> w % WSize]

\* neighbors
Neighbours(cell, depth) ==
    {Wrap(cell.iu + d[1], cell.iv + d[2], cell.iw + d[3]) :
        d \in {e \in (-depth .. depth) \X (-depth .. depth) \X (-depth .. depth) :
                  Abs(e[1]) + Abs(e[2]) + Abs(e[3]) <= depth}}

\* address_for: the region of a memory chooses a strip of iv, a hash the rest.
Band == [episodic |-> 0, semantic |-> 2, procedural |-> 4, decision |-> 6, error |-> 8,
         solution |-> 10, multimodal |-> 12]

RegionBand(region, byte) ==
    LET start == Lower(Band[region], VSize - 1)
        width == Higher(1, VSize \div 8)
    IN  Lower(VSize - 1, start + (byte % width))

AddressFor(region, hash) ==
    [iu |-> hash[1] % USize, iv |-> RegionBand(region, hash[2]), iw |-> hash[3] % WSize]

=============================================================================
