-------------------------- MODULE MultiRoundTrip --------------------------
(* The multi-field writer and the multi-field reader together: what a program
   appends to a multi-field handle and writes to a file comes back, field by
   field, from handles read from that file. The reader is MultiField, whose
   sources have no messages but those that were written. *)
EXTENDS MultiField

CONSTANTS
    Handles, Starts, MaxFields,   \* of MultiHandle
    Garbage                       \* what may be found in a file of a broken buffer

\* The sections of a handle are in the order of their numbers, the local section
\* 2 being the only one that may be missing, and its bitmap is its own.
OneField(h) ==
    /\ h \in Seq({h[i] : i \in DOMAIN h})
    /\ \A i \in DOMAIN h : h[i].num \in 1..7 /\ h[i].len \in Nat /\ h[i].inherits = FALSE
    /\ \A i, j \in DOMAIN h : i < j => h[i].num < h[j].num
    /\ (1..7) \ {2} \subseteq {h[i].num : i \in DOMAIN h}

\* A start section is one of the message, but not the first: GRIB repeats no section 1.
ASSUME HandlesAssumption == (\A h \in Handles : OneField(h)) /\ Starts \subseteq {0} \cup 2..7

\* A reader finds messages in any file, or none.
ASSUME GarbageAssumption == Garbage \subseteq Seq(Message)

VARIABLES
    messages, ulength, offset, length, spoiled, crashed, fields,   \* of MultiHandle
    written   \* history: the messages written to each file, their fields, and whether
              \* the buffer was intact

Writer == INSTANCE MultiHandle

mhVars == <<messages, ulength, offset, length, spoiled, crashed, fields>>
rtVars == <<vars, mhVars, written>>

Nothing == [s \in Source |-> <<>>]

\* What a reader of the file finds.
Seen(section) == [num |-> section.num, len |-> section.len, inherits |-> section.inherits]
Sent(ms) ==
    [i \in DOMAIN ms |->
        [edition |-> 2, sections |-> [j \in DOMAIN ms[i].sections |-> Seen(ms[i].sections[j])]]]

\* grib_multi_handle_write, to a file that is then closed. Nothing is checked:
\* a buffer with a wrong length, or a section 0 among its sections, is written
\* like any other. Its octets are not kept, so anything may be found in it.
WriteFile(f) ==
    /\ ~crashed
    /\ messages # <<>>
    /\ written[f].messages = <<>>
    /\ \E found \in IF Writer!Intact THEN {Sent(messages)} ELSE Garbage :
          stream' = [stream EXCEPT ![f] = found]
    /\ written' = [written EXCEPT ![f] =
                      [messages |-> messages, fields |-> fields, intact |-> Writer!Intact]]
    /\ UNCHANGED <<mhVars, files, supports, out, last>>

RTInit ==
    /\ Writer!Init
    /\ stream = Nothing /\ Started
    /\ written = [f \in File |-> [messages |-> <<>>, fields |-> <<>>, intact |-> TRUE]]

\* The writer stops once every file is written.
Write == Writer!Next /\ (\E f \in File : written[f].messages = <<>>) /\ UNCHANGED <<vars, written>>

Read == ~crashed /\ Next /\ UNCHANGED <<mhVars, written>>

RTNext == Write \/ (\E f \in File : WriteFile(f)) \/ Read

RTSpec == RTInit /\ [][RTNext]_rtVars

\* A field read, by the names of the sections that were appended.
Named(content) ==
    [n \in DOMAIN content \ {0} |->
        LET block == content[n][1]
        IN  written[block[1]].messages[block[2]].sections[content[n][2]].id]

(* The messages of the handle tile its buffer, and the fields a file returns
   are, in order, the fields appended: each with its own sections from the
   start section on and, before it, those of the field before.  At the end of
   the file none is missing.  Only files written from an intact handle are
   meant.  eccodes.h (line 519) promises of every append that the sections are
   put at the end of the handle; that does not hold when they are appended to a
   second message, as the length is encoded in the wrong place (line 1319), nor
   when the handle lacks the section to start from (line 1352). *)
FieldsComeBack ==
    /\ Writer!Tiled
    /\ \A f \in File : written[f].intact =>
         /\ IsPrefix([i \in DOMAIN out[f] |-> Named(out[f][i].content)], written[f].fields)
         /\ last[f] = "end" => Len(out[f]) = Len(written[f].fields)
=============================================================================
