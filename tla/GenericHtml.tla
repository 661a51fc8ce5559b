---------------------------- MODULE GenericHtml ----------------------------
(***************************************************************************)
(* The generic HTML driver, web_checker/drivers/generic_html: what it makes *)
(* of one response.  A page is the sequence of the elements the opportunity *)
(* selector matches; an element gives each configured source its text, or  *)
(* Missing when nothing matches or the text is blank.                      *)
(***************************************************************************)
EXTENDS Sequences

CONSTANTS
    Ids,            \* the opportunities a provider may list
    Mapping,        \* availability_mapping
    Required,       \* the sources whose "required" is not false
    Missing,        \* no text
    Illegible       \* a text that is not a date

Sources == {"id", "title", "availability", "starts_at", "booking_url"}

Core == INSTANCE Transitions WITH Opportunities <- Ids

(* The core wants an id and a title whether or not the sources do, and     *)
(* availability must be mapped.                                            *)
Legible(element) ==
    /\ \A s \in Required \cup {"id", "title"} : element[s] # Missing
    /\ element.availability \in DOMAIN Mapping
    /\ element.starts_at # Illegible

(* One element that is not legible fails the whole page, as does an id     *)
(* that comes twice, or no element at all.                                 *)
ParseFails(page) ==
    \/ page = << >>
    \/ \E i \in DOMAIN page : ~Legible(page[i])
    \/ \E i, k \in DOMAIN page : i # k /\ page[i].id = page[k].id

Snapshot(page) ==
    [o \in Ids |->
        IF \E i \in DOMAIN page : page[i].id = o
        THEN Mapping[page[CHOOSE i \in DOMAIN page : page[i].id = o].availability]
        ELSE Core!Absent]

=============================================================================
