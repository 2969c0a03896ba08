------------------------------- MODULE Containers -------------------------------
(*************************************************************************)
(* The algorithms of Containers.h that work in place: RandomResize keeps *)
(* some elements by chance, EraseIf those a predicate does not name; and *)
(* Intersects, which walks through two sorted containers.                *)
(*************************************************************************)
EXTENDS Naturals, Sequences, SequencesExt

CONSTANTS ContainerSamples,     \* sequences of numbers
          SortedSamples         \* sorted sequences of numbers

VARIABLES algorithm,            \* the one that runs, or has run
          original, container,  \* what it was given, and what it has made of it
          size,                 \* requestedSize; for EraseIf the elements to erase are below it
          keepIt, curIt,        \* the positions that are written and read next
          elementsToKeep, elementsToProcess
containerVars == <<algorithm, original, container, size, keepIt, curIt, elementsToKeep,
                   elementsToProcess>>

ContainerTypeOK == /\ algorithm \in {"RandomResize", "EraseIf", "resized", "erased"}
                   /\ original \in ContainerSamples /\ size \in Nat
                   /\ keepIt \in 1 .. Len(original) + 1 /\ curIt \in 1 .. Len(original) + 1
                   /\ elementsToKeep \in 0 .. size

\* A container that is small enough is left as it is.
ContainerInit ==
    /\ original \in ContainerSamples /\ container = original /\ size \in 0 .. 4
    /\ algorithm \in {"RandomResize", "EraseIf"}
    /\ algorithm = "RandomResize" => Len(container) > size
    /\ keepIt = 1 /\ curIt = 1
    /\ elementsToKeep = size /\ elementsToProcess = Len(container)

-------------------------------------------------------------------------------
\* urand(1, elementsToProcess) is the chance.
Keeps(chance) == chance <= elementsToKeep

ResizeStep(chance) ==
    /\ algorithm = "RandomResize" /\ elementsToProcess > 0
    /\ IF Keeps(chance)
       THEN /\ container' = [container EXCEPT ![keepIt] = container[curIt]]
            /\ keepIt' = keepIt + 1 /\ elementsToKeep' = elementsToKeep - 1
       ELSE UNCHANGED <<container, keepIt, elementsToKeep>>
    /\ curIt' = curIt + 1 /\ elementsToProcess' = elementsToProcess - 1
    /\ UNCHANGED <<algorithm, original, size>>

\* An element that stays is swapped to where the next one goes.
EraseStep ==
    /\ algorithm = "EraseIf" /\ curIt <= Len(container)
    /\ IF container[curIt] >= size
       THEN /\ container' = [container EXCEPT ![keepIt] = container[curIt],
                                              ![curIt] = container[keepIt]]
            /\ keepIt' = keepIt + 1
       ELSE UNCHANGED <<container, keepIt>>
    /\ curIt' = curIt + 1
    /\ UNCHANGED <<algorithm, original, size, elementsToKeep, elementsToProcess>>

\* erase(keepIt, end)
EraseRest ==
    /\ \/ algorithm = "RandomResize" /\ elementsToProcess = 0 /\ algorithm' = "resized"
       \/ algorithm = "EraseIf" /\ curIt > Len(container) /\ algorithm' = "erased"
    /\ container' = SubSeq(container, 1, keepIt - 1)
    /\ UNCHANGED <<original, size, keepIt, curIt, elementsToKeep, elementsToProcess>>

ContainerNext == \/ EraseStep \/ EraseRest
                 \/ \E chance \in 1 .. elementsToProcess : ResizeStep(chance)

\* The smaller of the two elements is left behind, until they are equal.
Intersects(s, t) ==
    LET From[i \in 1 .. Len(s) + 1, j \in 1 .. Len(t) + 1] ==
            /\ i <= Len(s) /\ j <= Len(t)
            /\ IF s[i] < t[j] THEN From[i + 1, j]
               ELSE IF t[j] < s[i] THEN From[i, j + 1] ELSE TRUE
    IN  From[1, 1]

-------------------------------------------------------------------------------
Subsequence(s, t) == \E S \in SUBSET DOMAIN t :
                        LET places == SetToSortSeq(S, <)
                        IN  s = [k \in DOMAIN places |-> t[places[k]]]

\* Whatever the chances, RandomResize keeps as many elements as were requested, in their
\* order: the last elements are kept for certain once no more may be lost.
ResizedExactly == algorithm = "resized" =>
                      Len(container) = size /\ Subsequence(container, original)

\* EraseIf leaves the elements the predicate does not name, in their order.
ErasedExactly == algorithm = "erased" =>
                     container = SelectSeq(original, LAMBDA e : e >= size)

\* Intersects finds a common element exactly if there is one.
IntersectsRight ==
    original \in SortedSamples =>
        \A other \in SortedSamples :
            Intersects(original, other) = (ToSet(original) \cap ToSet(other) # {})
===============================================================================
