--------------------------- MODULE ForbiddenPage ----------------------------
(***************************************************************************)
(* The page of /403/, which the HTTP server hands out with the other       *)
(* static files: a box with the name of the browser moves over a belt, and *)
(* when it reaches the scanner the monitor above alternates between two    *)
(* words, the longer one in the smaller font (class `text').               *)
(*                                                                         *)
(* The script runs once, after two libraries of a content delivery network *)
(* that may be missing; then frames of the animation and ticks of the      *)
(* interval timer interleave. A late frame may skip any part of the time   *)
(* line. What the script makes of the user agent is left out.              *)
(***************************************************************************)
EXTENDS Integers, Sequences

CONSTANTS
    End,        \* the length of the time line
    ScanAt      \* the position of its callback

VARIABLES
    libs,       \* the libraries that have been loaded
    named,      \* `.box .version' has been filled with navigator.sayswho
    playhead,   \* the position in the time line; -1: there is none
    scanned,    \* the callback has run, and with it the interval timer
    html, textClass,    \* the content of the monitor, and its class
    counter

pageVars == <<libs, named, playhead, scanned, html, textClass, counter>>

ASSUME PageAssumption == End \in Nat /\ ScanAt \in 1 .. End

(* The words of the monitor.                                               *)
text == <<"403", "Forbidden">>

-----------------------------------------------------------------------------
PageInit ==
    /\ libs \in SUBSET {"jquery", "gsap"}
    /\ named = FALSE /\ playhead = -1 /\ scanned = FALSE
    /\ html = "" /\ textClass = TRUE
    /\ counter = 0

(* The script: without jQuery it ends at the version of the box, without   *)
(* the animation library at the time line.                                 *)
Script ==
    /\ ~named /\ "jquery" \in libs
    /\ named' = TRUE
    /\ playhead' = IF "gsap" \in libs THEN 0 ELSE -1
    /\ UNCHANGED <<libs, scanned, html, textClass, counter>>

scanning == html' = "Forbidden"

(* A frame; the callback runs in the first one that is not before it.      *)
Frame ==
    /\ playhead \in 0 .. End - 1
    /\ playhead' \in playhead + 1 .. End
    /\ IF playhead' >= ScanAt /\ ~scanned
       THEN scanned' = TRUE /\ scanning
       ELSE UNCHANGED <<scanned, html>>
    /\ UNCHANGED <<libs, named, textClass, counter>>

(* Mutant: a timer that fires once.                                        *)
changeOnce ==
    /\ scanned /\ textClass
    /\ html' = text[counter + 1]
    /\ textClass' = FALSE
    /\ counter' = counter + 1
    /\ UNCHANGED <<libs, named, playhead, scanned>>

(* Mutant: the index is compared before it is advanced.                    *)
changeLate ==
    /\ scanned
    /\ html' = IF counter < Len(text) THEN text[counter + 1] ELSE html
    /\ textClass' = ~textClass
    /\ counter' = IF counter >= Len(text) THEN 0 ELSE counter + 1
    /\ UNCHANGED <<libs, named, playhead, scanned>>

(* A tick of the interval timer.                                           *)
change ==
    /\ scanned
    /\ html' = text[counter + 1]
    /\ textClass' = ~textClass
    /\ counter' = IF counter + 1 >= Len(text) THEN 0 ELSE counter + 1
    /\ UNCHANGED <<libs, named, playhead, scanned>>

PageNext == Script \/ Frame \/ change

PageSpec == PageInit /\ [][PageNext]_pageVars

(* The browser runs scripts, frames and timers that are due.               *)
PageFairSpec ==
    /\ PageSpec
    /\ WF_pageVars(Script) /\ WF_pageVars(Frame) /\ WF_pageVars(change)

-----------------------------------------------------------------------------
(* Only the long word is shown in the small font, whenever the timer fires *)
(* between the frames: the word and the font are changed by different      *)
(* means, an index and a toggle.                                           *)
FontFits == html # "" => (textClass <=> html = "Forbidden")

(* If both libraries have been loaded, the monitor shows both words again  *)
(* and again.                                                              *)
Alternates ==
    libs = {"jquery", "gsap"} =>
      []<>(html = "403") /\ []<>(html = "Forbidden")
=============================================================================
