---------------------------- MODULE MCDirectories ----------------------------
\* Small trees: a directory under each place a relative path can start from,
\* one two levels deep, and the same name in several places.
EXTENDS Directories

MCNames      == {"work", "home", "a"}
MCCwd        == <<"work">>
MCHome       == <<"home">>
MCLocalDirs  == {<<>>, <<"work">>, <<"home">>, <<"a">>, <<"home", "a">>,
                 <<"work", "a">>, <<"work", "a", "a">>}
MCRemoteDirs == {<<>>, <<"home">>, <<"a">>, <<"home", "a">>}
=============================================================================
