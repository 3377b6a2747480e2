----------------------------- MODULE DevicePages -----------------------------
(***************************************************************************)
(* GET /api/v1/devices, page by page, while devices are registered,        *)
(* renamed, and change their status: each page takes up behind the device  *)
(* the last one ended with, by name and identifier.                        *)
(*                                                                         *)
(* Abstractions.  Names are numbers in the order of NOCASE, identifiers in *)
(* their own.  A client asks for pages of one size with one filter.        *)
(* MaxChanges bounds the model.                                            *)
(***************************************************************************)
EXTENDS Naturals, FiniteSets

CONSTANTS
    PageId,         \* identifiers of devices, ordered
    SortName,       \* names, ordered
    Limit,          \* the size of a page
    MaxChanges      \* bound: changes of devices

ASSUME PagesAssumption ==
    /\ PageId \subseteq Nat \ {0} /\ IsFiniteSet(PageId) /\ SortName \subseteq Nat
    /\ Limit \in Nat \ {0} /\ MaxChanges \in Nat

VARIABLES
    rows,           \* durable: sort_name and status of each device
    reader,         \* the cursor of the client, and its filter
    changes,        \* bound
    listed,         \* history: how often each device was listed
    touched,        \* history: devices registered or changed since the first page
    cursorMoved     \* history: the device of the cursor was renamed

pageVars == <<rows, reader, changes, listed, touched, cursorMoved>>

-----------------------------------------------------------------------------

PageStatus == {"available", "unavailable"}
NoRow == [name |-> 0, status |-> "absent"]
AnyStatus == "any"

PagesInit ==
    /\ rows = [i \in PageId |-> NoRow]
    /\ reader = [at |-> "none", cursor |-> 0, status |-> AnyStatus]
    /\ changes = 0
    /\ listed = [i \in PageId |-> 0]
    /\ touched = {} /\ cursorMoved = FALSE

\* register_discovery, rename_device and set_adapter_devices_status, as far as
\* the index is concerned.
ChangeRow(i, name, status) ==
    /\ changes < MaxChanges
    /\ rows[i] # [name |-> name, status |-> status]
    /\ rows' = [rows EXCEPT ![i] = [name |-> name, status |-> status]]
    /\ changes' = changes + 1
    /\ touched' = IF reader.at = "none" THEN {} ELSE touched \cup {i}
    /\ cursorMoved' = (cursorMoved \/ (i = reader.cursor /\ name # rows[i].name))
    /\ UNCHANGED <<reader, listed>>

Before(i, j) == rows[i].name < rows[j].name \/ (rows[i].name = rows[j].name /\ i < j)

Matches(i, status) == rows[i] # NoRow /\ status \in {AnyStatus, rows[i].status}

\* Mutant: the device of the cursor is listed again.
BehindOrAt(cursor, i) == cursor = 0 \/ i = cursor \/ Before(cursor, i)

Behind(cursor, i) == cursor = 0 \/ Before(cursor, i)

Selected(cursor, status) == {i \in PageId : Matches(i, status) /\ Behind(cursor, i)}

\* The first Limit rows of a selection.
Page(selection) == {i \in selection : Cardinality({j \in selection : Before(j, i)}) < Limit}

\* list_devices_page.  One row more than the limit tells whether there are more.
ReadPage(cursor, status) ==
    LET selection == Selected(cursor, status)
        page == Page(selection)
        more == Cardinality(selection) > Limit
    IN  /\ listed' = [i \in PageId |-> IF i \in page THEN listed[i] + 1 ELSE listed[i]]
        /\ reader' = [at |-> IF more THEN "reading" ELSE "done", status |-> status,
                      cursor |-> IF more
                                    THEN CHOOSE i \in page : \A j \in page : ~Before(i, j)
                                    ELSE 0]
        /\ UNCHANGED <<rows, changes, touched, cursorMoved>>

FirstPage(status) ==
    /\ reader.at = "none"
    /\ ReadPage(0, status)

NextPage == reader.at = "reading" /\ ReadPage(reader.cursor, reader.status)

PagesNext ==
    \/ \E i \in PageId, name \in SortName, status \in PageStatus : ChangeRow(i, name, status)
    \/ \E status \in PageStatus \cup {AnyStatus} : FirstPage(status)
    \/ NextPage

PagesSpec == PagesInit /\ [][PagesNext]_pageVars

-----------------------------------------------------------------------------
(* Properties. *)

PagesTypeOK ==
    /\ rows \in [PageId -> [name : SortName \cup {0}, status : PageStatus \cup {"absent"}]]
    /\ reader \in [at : {"none", "reading", "done"}, cursor : PageId \cup {0},
                   status : PageStatus \cup {AnyStatus}]
    /\ changes \in 0..MaxChanges
    /\ listed \in [PageId -> Nat]
    /\ touched \subseteq PageId
    /\ cursorMoved \in BOOLEAN

\* api/0001: the cursor is the last device applied, never an offset.  However
\* many devices come, change their status or their name between two pages, a
\* device that stays as it was is listed once and only once, as long as the
\* device of the cursor keeps its name.
PagesListOnce ==
    ~cursorMoved =>
        \A i \in PageId \ touched :
            /\ listed[i] <= 1
            /\ reader.at = "done" /\ Matches(i, reader.status) => listed[i] = 1
=============================================================================
