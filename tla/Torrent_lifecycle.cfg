SPECIFICATION Spec
CONSTANTS
    film = film
    copy = copy
    movie = movie
    c1 = c1
    c2 = c2
    Torrents = {film, copy}
    Contents = {movie}
    Info <- MCInfo
    Calls = {c1, c2}
    MaxViews = 2
    MaxTimers = 1
    MaxIds = 2
INVARIANTS TypeOK Accounted
PROPERTIES DataKept
CHECK_DEADLOCK FALSE
