------------------------------ MODULE MCSchema ------------------------------
(***************************************************************************)
(* Facts about the operators of Schema and Client that TLC evaluates over  *)
(* small inputs when it starts.  Those whose name ends in Possible show a  *)
(* hazard: they hold because the code allows what the comment says.        *)
(***************************************************************************)
EXTENDS Schema, Client, FiniteSets

(* Answers with the given columns, in any order, and the given number of   *)
(* rows.                                                                   *)
AnswersOf(columns, values, rows) ==
    [fields : {f \in [1..Cardinality(columns) -> columns] : {f[i] : i \in DOMAIN f} = columns},
     rows : [1..rows -> [columns -> values]]]

One(values) == [fields |-> <<"a">>,
                rows |-> [i \in DOMAIN values |-> [c \in {"a"} |-> values[i]]]]
Two(x, y) == [fields |-> <<"a", "b">>, rows |-> <<[a |-> x, b |-> y]>>]

(* The registry after a fetch that was alone.                              *)
Fetched(registry, answer) ==
    IF Accepts(registry, answer) THEN Register(registry, Prepare(registry, answer)) ELSE registry

(* Some values of every type.                                              *)
Sample == {"null", "bool", "int", "whole", "fraction", "int_text", "text", "blank"}
MCAnswers == AnswersOf({"a"}, Sample, 1) \union AnswersOf({"a"}, Sample, 2)

-----------------------------------------------------------------------------
(* Reading a value again changes nothing: a fetch that is repeated writes  *)
(* what the first one wrote.                                               *)
ASSUME CoercionSettles ==
    \A v \in Values, t \in Types :
        /\ Coerce(Coerce(v, t), t) = Coerce(v, t)
        /\ Coerce(v, "string") \in Texts \union {"null"}

(* Numbers that come as text, as in old answers, are taken for numbers,    *)
(* and a blank for none; only in a column of integers is a fraction that   *)
(* comes as text refused, which as a number widens the column.             *)
ASSUME TextFitsNumbers ==
    LET ints == Fetched(<<>>, One(<<"int">>))
        floats == Fetched(<<>>, One(<<"fraction">>))
        spelt == {"bit_text", "int_text", "float_bit_text", "whole_text", "blank"}
    IN  /\ \A v \in Texts : Accepts(ints, One(<<v>>)) <=> v \in spelt
        /\ \A v \in Texts : Accepts(floats, One(<<v>>)) <=> v \in spelt \union {"fraction_text"}
        /\ Accepts(ints, One(<<"fraction">>))

(* The order of the rows does not matter unless booleans meet numbers.     *)
ASSUME OrderOfRows ==
    \A u, v, w \in Values \ {"bool"}, t \in Types :
        /\ ColumnType(<<u, v, w>>, t) = ColumnType(<<w, u, v>>, t)
        /\ ColumnType(<<u, v, w>>, t) = ColumnType(<<v, u, w>>, t)
ASSUME OrderMattersPossible ==
    ColumnType(<<"bool", "int">>, "string") # ColumnType(<<"int", "bool">>, "string")

(* An answer the registry accepts gives a file of the types of its schema, *)
(* with nulls, unless it cannot be written; and while the columns and the  *)
(* types stay, its readers can unite it with the files before.             *)
ASSUME AcceptedFileFits ==
    \A first, second \in MCAnswers :
        LET registry == Fetched(<<>>, first)
            file == FileOf(registry, second)
            schema == Prepare(registry, second)
        IN  Accepts(registry, second) /\ Writable(file) =>
                /\ \A c \in DOMAIN file : file[c] \in {schema.types[c], "null"}
                /\ schema.types = LatestSchema(registry).types /\ Writable(FileOf(<<>>, first))
                     => Readable({FileOf(<<>>, first), file})

(* The kinds of change are told apart.                                     *)
ASSUME ChangeIsNamed ==
    \A first, second \in {Two(x, y) : x, y \in Sample} \union {One(<<x>>) : x \in Sample}
                         \union {[Two("int", "text") EXCEPT !.fields = <<"b", "a">>]} :
        LET registry == Fetched(<<>>, first)
            old == LatestSchema(registry)
            new == Prepare(registry, second)
        IN  /\ (ChangeType(old, new) = "incompatible_type_change") = ~Accepts(registry, second)
            /\ ChangeType(old, new) = "same" <=> old.fields = new.fields /\ old.types = new.types
            /\ ChangeType(old, new) = "reorder" => old.types = new.types

(* A column that is missing once leaves the latest schema; it returns with *)
(* another type, is accepted, and no reader can unite its files.           *)
ASSUME ReturnsAsOtherPossible ==
    LET one == Fetched(<<>>, Two("int", "int"))
        two == Fetched(one, One(<<"int">>))
    IN  /\ Accepts(two, Two("int", "text"))
        /\ ~Accepts(one, Two("int", "text"))
        /\ ~Readable({FileOf(<<>>, Two("int", "int")), FileOf(two, Two("int", "text"))})

(* The widening from integers to floats is accepted, and no reader can     *)
(* unite the files from before it with those from after it.                *)
ASSUME WideningUnreadablePossible ==
    LET one == Fetched(<<>>, One(<<"int">>))
        after == One(<<"fraction">>)
    IN  /\ Accepts(one, after) /\ ChangeType(LatestSchema(one), Prepare(one, after)) = "type_widening"
        /\ ~Readable({FileOf(<<>>, One(<<"int">>)), FileOf(one, after)})

(* Two first answers that are prepared before either is registered are     *)
(* both accepted, whatever their types.                                    *)
ASSUME FirstAnswersRacePossible ==
    LET one == One(<<"int">>)
        other == One(<<"text">>)
    IN  /\ Accepts(<<>>, one) /\ Accepts(<<>>, other)
        /\ ~Accepts(Fetched(<<>>, one), other)
        /\ ~Readable({FileOf(<<>>, one), FileOf(<<>>, other)})

(* A column of nulls in the first answer is registered as text, and the    *)
(* numbers that follow become text for good.                               *)
ASSUME NullsBecomeTextPossible ==
    LET one == Fetched(<<>>, One(<<"null">>))
    IN  Accepts(one, One(<<"fraction">>)) /\ FileOf(one, One(<<"fraction">>))["a"] = "string"

(* A schema stays registered although its file could not be written; a     *)
(* first answer that mixes text and numbers fails, and the same answer     *)
(* passes the next time, as text.                                          *)
ASSUME RegisteredUnwrittenPossible ==
    LET answer == One(<<"int", "text">>)
        one == Fetched(<<>>, answer)
    IN  /\ one # <<>> /\ ~Writable(FileOf(<<>>, answer))
        /\ Accepts(one, answer) /\ Writable(FileOf(one, answer))

(* A schema that comes back is not registered again: the latest schema is  *)
(* not the one of the last file.                                           *)
ASSUME LatestBehindPossible ==
    LET one == Fetched(<<>>, One(<<"int">>))
        two == Fetched(one, Two("int", "int"))
        three == Fetched(two, One(<<"int">>))
    IN  three = two /\ LatestSchema(three) # Prepare(two, One(<<"int">>))

-----------------------------------------------------------------------------
MCPages == [ok : BOOLEAN, more : BOOLEAN, items : {{}, {1}, {2}}]
MCServices == [0..3 -> {p \in MCPages : p.ok \/ p.items = {}}]

(* What a service has to give: the items up to the first page that is the  *)
(* last, for a service that says so and has no empty page before.          *)
LastPage(service) == CHOOSE n \in 0..3 : ~service[n].more /\ \A k \in 0..3 : k < n => service[k].more
Sound(service) ==
    /\ \E n \in 0..3 : ~service[n].more
    /\ \A n \in 0..3 : service[n].ok
    /\ \A n \in 0..3 : service[n].more => service[n].items # {}

(* A query gives all there is or an error: the error of the limit if there *)
(* are more pages than it may ask for, the items if there are just as many.*)
ASSUME AllOrError ==
    \A service \in MCServices, maxPages \in 1..3 :
        Sound(service) =>
            LET answer == Query(service, TRUE, maxPages)
            IN  IF LastPage(service) < maxPages
                THEN /\ answer.result = "items"
                     /\ answer.items = UNION {service[n].items : n \in 0..LastPage(service)}
                ELSE answer.result = "too_many_pages"

(* An empty page ends a query, and of an endpoint that is not paged the    *)
(* first page is taken for all, whatever they say of more to come.         *)
ASSUME UnpagedCutPossible ==
    \E service \in MCServices :
        /\ Sound(service)
        /\ Query(service, FALSE, 3).result = "items" /\ Query(service, TRUE, 3).result = "items"
        /\ Query(service, FALSE, 3).items # Query(service, TRUE, 3).items
ASSUME EmptyPageEndsPossible ==
    \E service \in MCServices :
        /\ service[1].more /\ service[1].items = {} /\ service[2].items # {}
        /\ Query(service, TRUE, 4).result = "items" /\ Query(service, TRUE, 4).requests = 2

(* The error of the limit carries a response with code 0, so that it is    *)
(* unknown and all pages are asked for again, as often as there are        *)
(* attempts.                                                               *)
ASSUME LimitRetriedPossible ==
    \A attempts \in 1..3 : Attempts(ErrorType("ok", {}), attempts) = attempts

(* A message about the rate that also speaks of permissions is a denial,   *)
(* and the query is not made again.                                        *)
ASSUME RateIsDeniedPossible ==
    /\ Attempts(ErrorType("other", {"rate"}), 3) = 3
    /\ Attempts(ErrorType("other", {"rate", "permission"}), 3) = 1

(* Every error has a class, and only those of Retryable wait, at most half *)
(* a minute.                                                               *)
ASSUME RetriesStop ==
    \A code \in Codes, topics \in SUBSET Topics, max \in 1..6, n \in 1..6 :
        LET type == ErrorType(code, topics)
        IN  /\ Attempts(type, max) <= max
            /\ RetryDelay(type, n) \in 0..30
            /\ RetryDelay(type, n) > 0 <=> ShouldRetry(type, n, n + 1)
=============================================================================
