-------------------------- MODULE ScrollableCursor --------------------------
(***************************************************************************)
(* open_scrollable_cursor, scroll and close_cursor of Connection, with     *)
(* ScrollableCursor of cursor.rs.  The client computes the absolute row it *)
(* asks for from the position it keeps; the server answers with that row,  *)
(* and its number, or with no row.                                         *)
(***************************************************************************)
EXTENDS Integers

CONSTANTS
  CursorRows, \* rows of the result set
  Offsets,    \* offsets of Absolute and Relative scrolls
  MaxStray    \* bound: how far the position may run past either end

ASSUME CursorConstants ==
  /\ CursorRows \in Nat /\ MaxStray \in Nat
  /\ Offsets \subseteq Int

VARIABLE cursor  \* the ScrollableCursor, and the row of the last scroll (0: none)

Orientations == {"First", "Last", "Next", "Prior", "Absolute", "Relative", "Current"}

CursorInit == cursor = [is_open |-> FALSE, position |-> 0, row |-> 0,
                        at_beginning |-> FALSE, used |-> FALSE]

AtLeast0(n) == IF n < 0 THEN 0 ELSE n

\* The server (external): the row a scroll request asks for, 0 if there is none.
RowAt(o, fetch_pos) ==
  LET n == IF o = "Last" THEN CursorRows ELSE fetch_pos
  IN  IF n \in 1..CursorRows THEN n ELSE 0

\* Mutant: Prior asks for the current row again.
FetchPosPriorStays(o, position, offset) ==
  CASE o = "First" -> 1
    [] o = "Last" -> 0
    [] o = "Absolute" -> AtLeast0(offset)
    [] o = "Relative" -> AtLeast0(position + offset)
    [] o = "Next" -> AtLeast0(position + 1)
    [] o \in {"Prior", "Current"} -> AtLeast0(position)

\* The fetch_pos that scroll sends.
FetchPos(o, position, offset) ==
  CASE o = "First" -> 1
    [] o = "Last" -> 0
    [] o = "Absolute" -> AtLeast0(offset)
    [] o = "Relative" -> AtLeast0(position + offset)
    [] o = "Next" -> AtLeast0(position + 1)
    [] o = "Prior" -> AtLeast0(position - 1)
    [] o = "Current" -> AtLeast0(position)

\* The position scroll assumes when no row came; row_count is never known.
PositionWithoutRow(o, position, offset) ==
  CASE o = "First" -> 0
    [] o = "Last" -> 1
    [] o = "Next" -> position + 1
    [] o = "Prior" -> position - 1
    [] o = "Absolute" -> offset
    [] o = "Relative" -> position + offset
    [] o = "Current" -> position

OpenScrollableCursor ==
  /\ ~cursor.used
  /\ cursor' = [cursor EXCEPT !.is_open = TRUE, !.used = TRUE]

Scroll(o, offset) ==
  /\ cursor.is_open
  /\ o \notin {"Absolute", "Relative"} => offset = 0
  /\ LET row == RowAt(o, FetchPos(o, cursor.position, offset))
         new_position == IF row # 0 THEN row
                         ELSE PositionWithoutRow(o, cursor.position, offset)
     IN  /\ new_position \in (-MaxStray)..(CursorRows + 1 + MaxStray)
         /\ cursor' = [cursor EXCEPT !.position = new_position, !.row = row,
                                     !.at_beginning = new_position <= 1]

\* close_cursor only marks the cursor: the server's cursor stays open.
CloseCursor ==
  /\ cursor.is_open
  /\ cursor' = [cursor EXCEPT !.is_open = FALSE]

CursorNext ==
  \/ OpenScrollableCursor \/ CloseCursor
  \/ \E o \in Orientations, offset \in Offsets \cup {0} : Scroll(o, offset)

CursorSpec == CursorInit /\ [][CursorNext]_cursor

----------------------------------------------------------------------------
\* The cursor as its documentation describes it: before, on or after the rows.
IdealRow(o, position, offset) ==
  LET n == CASE o = "First" -> 1
             [] o = "Last" -> CursorRows
             [] o = "Next" -> position + 1
             [] o = "Prior" -> position - 1
             [] o = "Absolute" -> offset
             [] o = "Relative" -> position + offset
             [] o = "Current" -> position
  IN  IF n \in 1..CursorRows THEN n ELSE 0

(***************************************************************************)
(* A scroll from a position between before-first and after-last delivers   *)
(* the row that its orientation asks for; and whatever was done before, a  *)
(* position that names a row is the position of the row delivered, so that *)
(* First, Last and Absolute recover a cursor that ran past an end.         *)
(***************************************************************************)
ScrollDelivers ==
  [][\A o \in Orientations, offset \in Offsets \cup {0} :
       Scroll(o, offset) =>
         /\ cursor.position \in 0..(CursorRows + 1) \/ o \in {"First", "Last", "Absolute"} =>
              cursor'.row = IdealRow(o, cursor.position, offset)
         /\ cursor'.row # 0 => cursor'.position = cursor'.row
         /\ o # "Current" /\ cursor'.position \in 1..CursorRows =>
              cursor'.row = cursor'.position]_cursor
=============================================================================
