-------------------------------- MODULE MCPipe --------------------------------
EXTENDS Pipe
MCStrings == {<<"char">>, <<"lead", "tail">>}
MCOutputs == {<<"char">>, <<"lead", "tail">>, <<"lead">>, <<"tail">>}
=============================================================================
