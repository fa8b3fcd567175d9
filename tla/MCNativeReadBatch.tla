-------------------------- MODULE MCNativeReadBatch --------------------------
(* NativeReadBatch with the code's own widths and cursors of few columns.  *)
EXTENDS NativeReadBatch

FewSchemas == {<<>>, <<"INT64">>, <<"DOUBLE", "BOOL">>, <<"DATE32", "TIMESTAMP">>,
               <<"DECIMAL128", "STRING">>, <<"STRING", "STRING">>}
SomeSizes == {0, 1, 2, 255}
=============================================================================
