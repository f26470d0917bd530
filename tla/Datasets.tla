------------------------------- MODULE Datasets -------------------------------
(***************************************************************************)
(* include/data_loading: what a pass over a dataset hands out.             *)
(*                                                                         *)
(* A dataset has its samples, the order in which they are read, and a      *)
(* position.  Only the label of a sample is kept, and whether its image or *)
(* line can be read.  ImageNet100 has no order of its own: its samples are *)
(* moved (inPlace).                                                        *)
(***************************************************************************)
EXTENDS Integers, Sequences, FiniteSets, SequencesExt, FiniteSetsExt, Folds

Sample(label) == [label |-> label, readable |-> TRUE]
Broken(label) == [label |-> label, readable |-> FALSE]

(* What stands for a sample in a batch when it cannot be read: whatever    *)
(* was in the memory of the tensor, or a picture of zeros with this label. *)
Stale == -2
Sentinel == -1

Indices(n) == [i \in 1..n |-> i]

NoDataset(inPlace) == [inPlace |-> inPlace, samples |-> <<>>, order |-> <<>>, position |-> 0]

(* load_data is over, and was successful.                                  *)
Loaded(d, samples) ==
    [d EXCEPT !.samples = samples, !.order = Indices(Len(samples)), !.position = 0]

(* load_data gives up with the samples found so far: the order and the     *)
(* position are still those of before.                                     *)
LoadFailed(d, samples) == [d EXCEPT !.samples = samples]

Limit(d) == IF d.inPlace THEN Len(d.samples) ELSE Len(d.order)
SampleIndex(d, k) == IF d.inPlace THEN k ELSE d.order[k]

HasBatch(d) == d.position < Limit(d)
BatchIndices(d, size) ==
    [i \in 1..Min({size, Limit(d) - d.position}) |-> SampleIndex(d, d.position + i)]
AfterBatch(d, size) == [d EXCEPT !.position = @ + Len(BatchIndices(d, size))]

ResetDataset(d) == [d EXCEPT !.position = 0]

(* With p the permutation that std::shuffle takes; an empty dataset is     *)
(* left alone, with its position.                                          *)
ShuffledBy(d, p) ==
    IF Limit(d) = 0 THEN d
    ELSE IF d.inPlace
    THEN [d EXCEPT !.samples = [i \in DOMAIN @ |-> d.samples[p[i]]], !.position = 0]
    ELSE [d EXCEPT !.order = p, !.position = 0]

(* ImageNet100::set_seed sorts, by path; a label stands for it here.       *)
Seeded(d) ==
    IF d.inPlace THEN [d EXCEPT !.samples = SortSeq(@, LAMBDA a, b : a.label < b.label)] ELSE d

(* The labels of a batch: MNIST and TinyImageNet skip what is unreadable,  *)
(* ImageNet100 marks it.                                                   *)
LabelOf(d, s) ==
    IF s.readable THEN s.label ELSE IF d.inPlace THEN Sentinel ELSE Stale
BatchLabels(d, size) ==
    LET indices == BatchIndices(d, size)
    IN  [i \in DOMAIN indices |-> LabelOf(d, d.samples[indices[i]])]

(* get_batch_by_indices, for 1 to n where the code has 0 to n - 1; the     *)
(* position is left as it is, and no indices are no batch.                 *)
LabelsByIndices(d, indices) ==
    [i \in DOMAIN indices |->
        IF indices[i] > Len(d.samples) THEN Sentinel ELSE LabelOf(d, d.samples[indices[i]])]

(* The batches of a pass, as long as get_batch returns one.                *)
PassOf(d, size) ==
    LET pass[k \in 0..Limit(d)] ==
            IF k = 0 THEN [d |-> d, batches |-> <<>>]
            ELSE LET s == pass[k - 1]
                 IN  IF ~HasBatch(s.d) THEN s
                     ELSE [d       |-> AfterBatch(s.d, size),
                           batches |-> Append(s.batches, BatchIndices(s.d, size))]
    IN  pass[Limit(d)].batches

----------------------------------------------------------------------------
(* OpenWebText: a sample is a window of context tokens, and its labels are *)
(* the tokens one further.  Tokens are counted from 0.                     *)

NumSamples(tokens, context) == tokens - context - 1
TextLoads(tokens, context) == tokens > context + 1

(* The last batch of a pass is left out when it is not full.               *)
TextHasBatch(samples, position, size) == position + size <= samples

(* Where the windows of a batch begin: one after the other, or anywhere    *)
(* once shuffle has been called, for good.                                 *)
TextStarts(samples, position, size, shuffled) ==
    IF shuffled THEN [1..size -> 0..(samples - 1)]
    ELSE {[i \in 1..size |-> position + i - 1]}

TokensRead(start, context) == start..(start + context)

----------------------------------------------------------------------------
(* Files                                                                   *)

(* CIFAR10 and CIFAR100: whole records of files of these sizes.  One that  *)
(* cannot be opened (NoFile) fails, and so does an empty one, which cannot *)
(* be mapped.                                                              *)
NoFile == -1
RecordsOf(sizes, record) ==
    FlattenSeq([f \in DOMAIN sizes |->
        [r \in 1..(sizes[f] \div record) |-> [label |-> <<f, r>>, readable |-> TRUE]]])

LoadFiles(d, sizes, record) ==
    LET missing == {f \in DOMAIN sizes : sizes[f] \in {NoFile, 0}}
    IN  IF missing # {}
        THEN LoadFailed(d, RecordsOf(SubSeq(sizes, 1, Min(missing) - 1), record))
        ELSE Loaded(d, RecordsOf(sizes, record))

(* The place in a record of colour c in row h and column w, and in a batch *)
(* of channels-last images; a record begins with one or two labels.        *)
RecordCell(labels, side, c, h, w) == labels + c * side * side + h * side + w
BatchCell(channels, side, i, h, w, c) ==
    i * side * side * channels + h * side * channels + w * channels + c

(* MNIST: where the lines after the first begin, in a file of line ends    *)
(* ("n"), carriage returns ("r") and other characters.                     *)
LineStarts(file) ==
    LET ends == {p \in DOMAIN file : file[p] = "n"}
        LastEnd(p) == Max({e \in ends : e < p})
    IN  {p \in DOMAIN file :
            /\ file[p] \notin {"n", "r"}
            /\ \E e \in ends : e < p
            /\ \A q \in (LastEnd(p) + 1)..(p - 1) : file[q] = "r"}

(* A line is cut at its commas into fields (after the label, at carriage   *)
(* returns too), of which only the digits count; Other is not a digit.  It *)
(* has a label, or -1 when a field has no digit or is missing; what        *)
(* follows the last pixel is not looked at.                                *)
Other == -1
DigitsOf(field) == SelectSeq(field, LAMBDA c : c \in 0..9)
NumberIn(field) == FoldLeft(LAMBDA n, c : (10 * n) + c, 0, DigitsOf(field))
LineLabel(fields, pixels) ==
    IF Len(fields) > pixels /\ \A f \in 1..(pixels + 1) : DigitsOf(fields[f]) # <<>>
    THEN NumberIn(fields[1]) ELSE -1

(* TinyImageNet and ImageNet100: a class is known by its place in the list *)
(* of classes (which ImageNet100 sorts); the last place when it is in the  *)
(* list twice.  dirs[d][class] are the files of a class in directory d.    *)
ClassIndex(classes, class) == Max({i \in DOMAIN classes : classes[i] = class}) - 1
TrainSamples(classes, dirs) ==
    FlattenSeq(FlattenSeq([d \in DOMAIN dirs |-> [c \in DOMAIN classes |->
        [f \in DOMAIN dirs[d][classes[c]] |->
            [file |-> dirs[d][classes[c]][f], label |-> ClassIndex(classes, classes[c])]]]]))

(* TinyImageNet's list for validation; a class that is not known is left   *)
(* out.                                                                    *)
AnnotatedSamples(classes, lines) ==
    LET known == SelectSeq(lines, LAMBDA l : l.class \in ToSet(classes))
    IN  [i \in DOMAIN known |->
            [file |-> known[i].file, label |-> ClassIndex(classes, known[i].class)]]

----------------------------------------------------------------------------
(* Small datasets                                                          *)

Shuffles(n) == {p \in [1..n -> 1..n] : \A i, j \in 1..n : p[i] = p[j] => i = j}
Plain(n, inPlace) == Loaded(NoDataset(inPlace), [i \in 1..n |-> Sample(i)])

(* After a shuffle and in the middle of a pass too, a pass begun by reset  *)
(* hands every sample out once, in full batches but for the last.          *)
ASSUME PassesAreComplete ==
    \A inPlace \in BOOLEAN, n \in 1..5, size \in 1..6 : \A p \in Shuffles(n) :
        LET used == AfterBatch(ShuffledBy(Plain(n, inPlace), p), size)
            pass == PassOf(ResetDataset(used), size)
        IN  /\ Len(FlattenSeq(pass)) = n /\ ToSet(FlattenSeq(pass)) = 1..n
            /\ Len(pass) = (n + size - 1) \div size
            /\ \A b \in 1..(Len(pass) - 1) : Len(pass[b]) = size

(* What the batches after a shuffle hold does not depend on the passes     *)
(* before for those with an order; samples that are moved go on from where *)
(* they are, unless the seed is set again.                                 *)
ASSUME ShufflesCompose ==
    \A p, q \in Shuffles(4) :
        LET Labels(d) == BatchLabels(d, 4)
            twice(inPlace) == ShuffledBy(ShuffledBy(Plain(4, inPlace), p), q)
        IN  /\ Labels(twice(FALSE)) = q
            /\ Labels(twice(TRUE)) = [i \in 1..4 |-> p[q[i]]]
            /\ Labels(ShuffledBy(Seeded(ShuffledBy(Plain(4, TRUE), p)), q)) = q

(* An unreadable sample keeps its place in the batch; only ImageNet100     *)
(* says so.                                                                *)
ASSUME UnreadableSamples ==
    \A inPlace \in BOOLEAN, bad \in 1..3 :
        LET d == Loaded(NoDataset(inPlace),
                        [i \in 1..3 |-> IF i = bad THEN Broken(i) ELSE Sample(i)])
        IN  \A i \in 1..3 : BatchLabels(d, 3)[i] =
                IF i # bad THEN i ELSE IF inPlace THEN Sentinel ELSE Stale

(* Batches by indices agree with a pass and leave it undisturbed.          *)
ASSUME IndicesAgree ==
    \A p \in Shuffles(3) :
        LET d == ShuffledBy(Plain(3, TRUE), p)
        IN  /\ LabelsByIndices(d, <<1, 2, 3>>) = BatchLabels(d, 3)
            /\ LabelsByIndices(d, <<2, 4>>) = <<p[2], Sentinel>>

(* Every window lies in the text, and the last token is in none.           *)
ASSUME WindowsLieInText ==
    \A context \in 1..4, tokens \in 1..12 : TextLoads(tokens, context) =>
        LET n == NumSamples(tokens, context)
        IN  /\ n > 0
            /\ UNION {TokensRead(s, context) : s \in 0..(n - 1)} = 0..(tokens - 2)
            /\ \A size \in 1..3, position \in 0..n, shuffled \in BOOLEAN :
                   TextHasBatch(n, position, size) =>
                       \A starts \in TextStarts(n, position, size, shuffled) :
                           \A i \in 1..size : starts[i] \in 0..(n - 1)

(* After a file that is missing, the order is still that of the files      *)
(* before: it may lead beyond the samples.                                 *)
ASSUME FailedReload ==
    LET d == LoadFiles(NoDataset(FALSE), <<7, 6>>, 3)
    IN  /\ Len(d.samples) = 4 /\ PassOf(d, 2) = <<<<1, 2>>, <<3, 4>>>>
        /\ LET failed == LoadFiles(d, <<3, NoFile>>, 3)
           IN  HasBatch(failed) /\ Max(ToSet(BatchIndices(failed, 4))) > Len(failed.samples)

(* The colours of every cell of a picture go to cells of their own.        *)
ASSUME RecordsFillBatches ==
    LET side == 3
        cells == (0..2) \X (0..(side - 1)) \X (0..(side - 1))
        record == {RecordCell(1, side, x[1], x[2], x[3]) : x \in cells}
        batch  == {BatchCell(3, side, i, x[2], x[3], x[1]) : i \in 0..1, x \in cells}
    IN  record = 1..(3 * side * side) /\ batch = 0..(2 * 3 * side * side - 1)

(* Lines and fields.                                                       *)
ASSUME LinesAndFields ==
    /\ LineStarts(<<"h", "n", "x", "x", "r", "n", "r", "n", "n", "x">>) = {3, 10}
    /\ LineStarts(<<"x", "x">>) = {}
    /\ LineLabel(<<<<7>>, <<0>>, <<2, 5>>>>, 2) = 7
    /\ LineLabel(<<<<Other, 7>>, <<1, Other, 5>>, <<2>>, <<3>>>>, 2) = 7
    /\ LineLabel(<<<<7>>, <<0>>>>, 2) = -1 /\ LineLabel(<<<<7>>, <<0>>, <<Other>>>>, 2) = -1

(* A class has one label in training and in validation.                    *)
ASSUME LabelsAgree ==
    \A classes \in [1..3 -> {"a", "b", "c"}] :
        LET dirs  == <<[a |-> <<1, 2>>, b |-> <<3>>, c |-> <<>>],
                       [a |-> <<>>, b |-> <<4>>, c |-> <<5>>]>>
            lines == <<[file |-> 6, class |-> "b"], [file |-> 7, class |-> "z"],
                       [file |-> 8, class |-> "a"]>>
            ClassOf(f) == IF f \in {1, 2, 8} THEN "a" ELSE IF f \in {3, 4, 6} THEN "b" ELSE "c"
        IN  \A s, t \in ToSet(TrainSamples(classes, dirs) \o AnnotatedSamples(classes, lines)) :
                s.label = t.label <=> ClassOf(s.file) = ClassOf(t.file)

=============================================================================
