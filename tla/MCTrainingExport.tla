-------------------------- MODULE MCTrainingExport --------------------------
(* Instances of TrainingExport for TLC. *)
EXTENDS TrainingExport, TLC

CONSTANTS x1, x2, ea, eb, mean, std

Row(en, ts, ft, v) == [entity |-> en, ts |-> ts, feature |-> ft, value |-> v]

Set(exp, ver, fs, es, s, t, d, about) ==
    [experiment |-> exp, version |-> ver, features |-> fs, entities |-> es,
     start |-> s, end |-> t, step |-> d, about |-> about]

\* One directory under two definitions, with an interval that does not divide
\* the span.
Base == Set(<<"a">>, <<"1">>, <<mean>>, <<ea, eb>>, 1, 4, 2, "sha1")
Changed == [Base EXCEPT !.about = "sha2"]
\* Another version, of two features.
Second == Set(<<"a">>, <<"2">>, <<mean, std>>, <<ea>>, 1, 2, 1, "sha1")

\* An interval of zero, over a range that is not empty.
Zero == [Second EXCEPT !.version = <<"3">>, !.step = 0]

WithZero == {Base, Second, Zero}
Definitions == {Base, Changed, Second}
JustBase == {Base}

\* x1 exports its directory under either definition; x2 exports that directory
\* too, and another one.
SharedDir == x1 :> {Base, Changed} @@ x2 :> {Base, Second}
AllSpecs == [x \in Exporters |-> Specs]

\* Rows at the first and the last grid point of Base, two of one cell, one after
\* the last point, a NULL, and a second feature at the end of Second.
Clean == {Row(ea, 1, mean, 10), Row(eb, 3, mean, 11), Row(eb, 3, mean, 12),
          Row(ea, 4, mean, 13), Row(ea, 2, std, 14), Row(eb, 1, mean, Null)}
Sparse == {Row(ea, 1, mean, 10)}

MCLabelOf == [p \in {ea, eb} \X (1 .. 4) |-> IF p[2] = 3 THEN Null ELSE 1]
=============================================================================
