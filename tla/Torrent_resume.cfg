SPECIFICATION FairSpec
CONSTANTS
    film = film
    copy = copy
    movie = movie
    c1 = c1
    c2 = c2
    Torrents = {film}
    Contents = {movie}
    Info <- MCInfo
    Calls = {c1}
    MaxViews = 1
    MaxTimers = 1
    MaxIds = 2
PROPERTIES CallsReturn
CHECK_DEADLOCK FALSE
