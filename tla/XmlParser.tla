------------------------------- MODULE XmlParser -------------------------------
(* xml_parser::parse: one pass over the tokens of a document, with a few     *)
(* flags for where it is, that hands on every train with a number and with   *)
(* the coordinates of its first part.                                        *)
(*                                                                           *)
(* The document is chosen token by token, within the feed's schema: a list   *)
(* of TreinLocation, each with a number and any number of parts, each with   *)
(* coordinates, and other elements in between.  Elements may be missing,     *)
(* empty or hold several texts.  A text is known by where it stands.         *)
EXTENDS Integers, Sequences

CONSTANTS
    Missing,       \* None, a field without a value
    MaxLocations   \* bound on the trains of a document

Fields == {"Nummer", "Lon", "Lat"}
Names  == {"ArrayOfTreinLocation", "TreinLocation", "TreinNummer",
           "TreinMaterieelDelen", "Longitude", "Latitude", "other"}
Texts  == [location : Nat, part : 0 .. 2, leaf : Names]

ASSUME MissingAssumption == Missing \notin Texts
ASSUME MaxLocationsAssumption == MaxLocations \in Nat

VARIABLES
    in_treinloc, seen_first_part, in_first_part,
    capture,         \* the field the next text is for, or "None"
    current_local,   \* the name of the element that was started last
    fields,          \* nummer, lon and lat
    trains,          \* what on_train was called with
    open,            \* the document: the elements that are open
    tag,             \* the document: the start tag read last has not ended yet
    location,        \* history: how many TreinLocation there have been
    part,            \* history: parts of the present one, at most 2 are told apart
    own,             \* history: what the present one says of itself
    complete         \* history: the trains the document describes completely

parserVars   == <<in_treinloc, seen_first_part, in_first_part, capture, fields, trains>>
documentVars == <<open, tag, location, part, own, complete>>
xmlVars      == <<parserVars, current_local, documentVars>>

Train    == [Fields -> Texts \cup {Missing}]
NoFields == [f \in Fields |-> Missing]

XmlTypeOK ==
    /\ in_treinloc \in BOOLEAN /\ seen_first_part \in BOOLEAN /\ in_first_part \in BOOLEAN
    /\ capture \in Fields \cup {"None"}
    /\ current_local \in Names \cup {""}
    /\ fields \in Train /\ own \in Train
    /\ trains \in Seq(Train) /\ complete \in Seq(Train)
    /\ open \in SUBSET Names
    /\ tag \in BOOLEAN
    /\ location \in Nat
    /\ part \in 0 .. 2

(* The root has been opened: its start tag means nothing to the parser.      *)
XmlInit ==
    /\ in_treinloc = FALSE /\ seen_first_part = FALSE /\ in_first_part = FALSE
    /\ capture = "None"
    /\ current_local = ""
    /\ fields = NoFields /\ own = NoFields
    /\ trains = <<>> /\ complete = <<>>
    /\ open = {"ArrayOfTreinLocation"}
    /\ tag = FALSE
    /\ location = 0
    /\ part = 0

(* trains.clear() and the locals of a new call.                              *)
XmlReset ==
    /\ in_treinloc' = FALSE /\ seen_first_part' = FALSE /\ in_first_part' = FALSE
    /\ capture' = "None"
    /\ current_local' = ""
    /\ fields' = NoFields /\ own' = NoFields
    /\ trains' = <<>> /\ complete' = <<>>
    /\ open' = {"ArrayOfTreinLocation"}
    /\ tag' = FALSE
    /\ location' = 0
    /\ part' = 0

--------------------------------------------------------------------------------
(* What the schema allows.                                                   *)

Depth == [ArrayOfTreinLocation |-> 0, TreinLocation |-> 1, TreinNummer |-> 2,
          TreinMaterieelDelen |-> 2, Longitude |-> 3, Latitude |-> 3, other |-> 4]

Innermost(n) == n \in open /\ \A m \in open : Depth[m] <= Depth[n]

Allowed(n) ==
    \/ n = "TreinLocation" /\ Innermost("ArrayOfTreinLocation") /\ location < MaxLocations
    \/ n \in {"TreinNummer", "TreinMaterieelDelen"} /\ Innermost("TreinLocation")
    \/ n \in {"Longitude", "Latitude"} /\ Innermost("TreinMaterieelDelen")
    \/ /\ n = "other"
       /\ \E m \in {"ArrayOfTreinLocation", "TreinLocation", "TreinMaterieelDelen"} : Innermost(m)

Opened(n) ==
    /\ Allowed(n)
    /\ open' = open \cup {n}
    /\ tag' = TRUE
    /\ location' = IF n = "TreinLocation" THEN location + 1 ELSE location
    /\ part' = IF n = "TreinLocation" THEN 0
               ELSE IF n = "TreinMaterieelDelen" /\ part < 2 THEN part + 1 ELSE part
    /\ own' = IF n = "TreinLocation" THEN NoFields ELSE own
    /\ UNCHANGED complete

Closed(n) ==
    /\ Innermost(n)
    /\ open' = open \ {n}
    /\ tag' = FALSE
    /\ complete' = IF n = "TreinLocation" /\ \A f \in Fields : own[f] # Missing
                   THEN Append(complete, own) ELSE complete
    /\ UNCHANGED <<location, part, own>>

(* The field a text in element n is meant for: coordinates count in the      *)
(* first part only.                                                          *)
Means(n, f) ==
    \/ n = "TreinNummer" /\ f = "Nummer"
    \/ n = "Longitude" /\ f = "Lon" /\ part = 1
    \/ n = "Latitude" /\ f = "Lat" /\ part = 1

Said(n, value) ==
    /\ Innermost(n)
    /\ own' = [f \in Fields |-> IF Means(n, f) THEN value ELSE own[f]]
    /\ UNCHANGED <<open, tag, location, part, complete>>

--------------------------------------------------------------------------------
(* The parser.                                                               *)

(* Mutation: the fields of the train before are not forgotten.               *)
EnterLocationKeepingFields ==
    /\ in_treinloc' = TRUE /\ seen_first_part' = FALSE /\ in_first_part' = FALSE
    /\ capture' = "None"
    /\ UNCHANGED <<fields, trains>>

EnterLocation ==
    /\ in_treinloc' = TRUE /\ seen_first_part' = FALSE /\ in_first_part' = FALSE
    /\ capture' = "None"
    /\ fields' = NoFields
    /\ UNCHANGED trains

EnterFirstPart ==
    /\ in_first_part' = TRUE /\ seen_first_part' = TRUE
    /\ UNCHANGED <<in_treinloc, capture, fields, trains>>

Capture(f) ==
    /\ capture' = f
    /\ UNCHANGED <<in_treinloc, seen_first_part, in_first_part, fields, trains>>

Ignored(n) ==
    /\ n # "TreinLocation"
    /\ ~(n = "TreinNummer" /\ in_treinloc)
    /\ ~(n = "TreinMaterieelDelen" /\ in_treinloc /\ ~seen_first_part)
    /\ ~(n \in {"Longitude", "Latitude"} /\ in_first_part)

StartElement(n) ==
    /\ ~tag
    /\ Opened(n)
    /\ current_local' = n
    /\ \/ n = "TreinLocation" /\ EnterLocation
       \/ n = "TreinNummer" /\ in_treinloc /\ Capture("Nummer")
       \/ n = "TreinMaterieelDelen" /\ in_treinloc /\ ~seen_first_part /\ EnterFirstPart
       \/ n = "Longitude" /\ in_first_part /\ Capture("Lon")
       \/ n = "Latitude" /\ in_first_part /\ Capture("Lat")
       \/ Ignored(n) /\ UNCHANGED parserVars

(* ElementEnd::Open *)
OpenElement ==
    /\ tag
    /\ tag' = FALSE
    /\ UNCHANGED <<parserVars, current_local, open, location, part, own, complete>>

LeaveLocation ==
    /\ trains' = IF \A f \in Fields : fields[f] # Missing THEN Append(trains, fields) ELSE trains
    /\ in_treinloc' = FALSE /\ seen_first_part' = FALSE /\ in_first_part' = FALSE
    /\ capture' = "None"
    /\ UNCHANGED fields

EndIgnored(n) ==
    /\ n \notin {"TreinNummer", "Longitude", "Latitude"}
    /\ ~(n = "TreinMaterieelDelen" /\ in_first_part)
    /\ ~(n = "TreinLocation" /\ in_treinloc)

EndElement(n) ==
    \/ n \in {"TreinNummer", "Longitude", "Latitude"} /\ Capture("None")
    \/ /\ n = "TreinMaterieelDelen" /\ in_first_part
       /\ in_first_part' = FALSE
       /\ UNCHANGED <<in_treinloc, seen_first_part, capture, fields, trains>>
    \/ n = "TreinLocation" /\ in_treinloc /\ LeaveLocation
    \/ EndIgnored(n) /\ UNCHANGED parserVars

CloseElement(n) ==
    /\ ~tag
    /\ Closed(n)
    /\ EndElement(n)
    /\ UNCHANGED current_local

(* ElementEnd::Empty has no name: it is that of the element started last.    *)
EmptyElement(n) ==
    /\ tag
    /\ Closed(n)
    /\ EndElement(current_local)
    /\ UNCHANGED current_local

(* A text, of which parse() makes a value or not.  Between elements there is *)
(* only white space.                                                         *)
Text(n, parses) ==
    /\ ~tag
    /\ n \in {"ArrayOfTreinLocation", "TreinLocation", "TreinMaterieelDelen"} => ~parses
    /\ LET value == IF parses THEN [location |-> location, part |-> part, leaf |-> n]
                              ELSE Missing IN
       /\ Said(n, value)
       /\ fields' = [f \in Fields |-> IF f = capture THEN value ELSE fields[f]]
    /\ UNCHANGED <<in_treinloc, seen_first_part, in_first_part, capture, trains, current_local>>

Token ==
    \/ \E n \in Names : StartElement(n) \/ CloseElement(n) \/ EmptyElement(n)
    \/ \E n \in Names, parses \in BOOLEAN : Text(n, parses)
    \/ OpenElement

XmlSpec == XmlInit /\ [][Token]_xmlVars

--------------------------------------------------------------------------------
(* Properties.                                                               *)

(* "Pulls three values out of each TreinLocation": the trains handed on are  *)
(* those that the document describes completely, each with its own number    *)
(* and the coordinates of its own first part, in order, whatever is missing, *)
(* empty, repeated or unreadable around them.                                *)
OwnFieldsOnly == trains = complete
================================================================================
